---------------------------- MODULE Spec2Model ----------------------------
(***************************************************************************)
(* A model of rpc4django's JSON-RPC 1.0 service:                           *)
(*   src/rpc4django/jsonrpcdispatcher.py  JSONRPCDispatcher                *)
(*   src/rpc4django/rpcdispatcher.py      rpcmethod, RPCMethod,            *)
(*                                        RPCDispatcher                    *)
(*   src/rpc4django/views.py              serve_rpc_request                *)
(*   src/rpc4django/exceptions.py         the error taxonomy               *)
(*   src/rpc4django/auth.py               AuthException and the hooks      *)
(*                                                                         *)
(* One dispatch call is a walk  idle -> started -> decoded -> validated -> *)
(* routed -> invoked -> encoded  with an exit to "raised" wherever the     *)
(* code raises, and from "raised" through one of the two except clauses to *)
(* "encoded".  Python values are tagged records; json.loads / json.dumps   *)
(* are modelled by what they do to those values.                           *)
(*                                                                         *)
(* Specifications:                                                         *)
(*   Spec            a JSONRPCDispatcher: register_function and dispatch   *)
(*   FairSpec        dispatch on a registry that no longer changes         *)
(*   SpecDispatcher  an RPCDispatcher: its construction, register_method,  *)
(*                   and dispatch of its methods                           *)
(*   SpecView        serve_rpc_request on the module's dispatcher          *)
(*   SpecThreads     two threads inside dispatch on one dispatcher         *)
(***************************************************************************)
EXTENDS Integers, Sequences, FiniteSets, TLC

VARIABLES
    methods,        \* JSONRPCDispatcher.methods: external name -> callable
    json_encoder,   \* JSONRPCDispatcher.json_encoder
    pc,             \* position of the current dispatch call
    json_data,      \* dispatch's argument: the raw request body
    kwargs,         \* dispatch's **kwargs: the dict of the keywords passed
    api_call_id,    \* local api_call_id
    jsondict,       \* local jsondict
    result,         \* local result (the handler's return value)
    exc,            \* the exception in flight / caught, or NoExc
    origin,         \* the stage that raised exc
    invoked,        \* how many times line 129 called a registered callable
    executed,       \* how many times a callable's body ran
    callee,         \* the callable self.methods held under the requested
                    \* name when lines 126 and 129 last read it
    seen,           \* RPCDispatcher.rpcmethods as the callable called at
                    \* line 129 found it
    response,       \* the envelopes returned by this call, in order
    rpcmethods,     \* RPCDispatcher.rpcmethods: the list of descriptors
    reg,            \* the last register_method call and what it did
    firsts,         \* external name -> the descriptor first registered
    config,         \* the arguments the RPCDispatcher was built with
    request,        \* the HttpRequest serve_rpc_request is serving
    vpc,            \* position of serve_rpc_request
    trace,          \* the hooks and handlers called for this request
    http,           \* what serve_rpc_request returned or raised
    waiting         \* the locals of the dispatch call of another thread

\* the locals of one dispatch call
locals == <<pc, json_data, kwargs, api_call_id, jsondict, result, exc, origin,
            invoked, executed, callee, seen, response, trace>>

\* the state of the RPCDispatcher around the JSONRPCDispatcher
rpcdispatcher == <<rpcmethods, reg, firsts, config>>

\* the state of serve_rpc_request
view == <<request, vpc, http>>

vars == <<methods, json_encoder, pc, json_data, kwargs, api_call_id, jsondict,
          result, exc, origin, invoked, executed, callee, seen, response,
          rpcmethods, reg,
          firsts, config, request, vpc, trace, http, waiting>>

-----------------------------------------------------------------------------
(* Bounds of the model *)

\* longest 'params' array a request carries
MaxParams == 2
\* largest number of entries in the registry
MaxMethods == 2

-----------------------------------------------------------------------------
(* Python values.  t is the Python type, n / s the scalar payload, a the   *)
(* items of a list or tuple, d the items of a dict; a dict holds in a its  *)
(* keys in the order they were inserted and in n the slots its hash table  *)
(* had before the first of them was, on which the order it iterates them   *)
(* depends.  A date holds in a its year, month and day.                    *)

V(t, n, s, a, d) == [t |-> t, n |-> n, s |-> s, a |-> a, d |-> d]

None      == V("NoneType", 0, "", <<>>, <<>>)
Num(n)    == V("int", n, "", <<>>, <<>>)
Str(s)    == V("unicode", 0, s, <<>>, <<>>)
\* a str, which holds bytes
Bytes(s)  == V("str", 0, s, <<>>, <<>>)
List(a)   == V("list", 0, "", a, <<>>)
Tuple(a)  == V("tuple", 0, "", a, <<>>)
\* PyDict_MINSIZE: the slots of a new dict
MINSIZE == 8

\* the first power of two, from size on, that is above minused
RECURSIVE NewSize(_, _)
NewSize(size, minused) ==
    IF size > minused THEN size ELSE NewSize(2 * size, minused)

\* the dict into which the (key, value) pairs of items are put one after the
\* other, as dict(pairs), d[k] = v on a new dict and json.loads do: a key
\* put again keeps its place and takes the new value
DictOf(items) ==
    CHOOSE v \in
      {LET first == {i \in DOMAIN its :
                        \A j \in 1..(i - 1) : its[j][1] # its[i][1]}
           nth(n)  == CHOOSE i \in first :
                          Cardinality({j \in first : j < i}) = n - 1
           last(k) == CHOOSE i \in DOMAIN its :
                          /\ its[i][1] = k
                          /\ \A j \in (i + 1)..Len(its) : its[j][1] # k
       IN  V("dict", MINSIZE, "",
             IF Cardinality(first) = Len(its)
             THEN [i \in DOMAIN its |-> Str(its[i][1])]
             ELSE [n \in 1..Cardinality(first) |-> Str(its[nth(n)][1])],
             [k \in {its[i][1] : i \in DOMAIN its} |-> its[last(k)][2]]) :
       its \in {items}} : TRUE

\* the dict display {k: v, ...} of the pairs: BUILD_MAP makes the dict with
\* _PyDict_NewPresized, which gives a dict of more than five pairs a table
\* of the first power of two above their number, and the pairs are put one
\* after the other.  Here and below, CHOOSE r \in {e : x \in {d}} : TRUE is
\* e with x standing for the value of d, which is worked out once.
Dict(items) ==
    CHOOSE v \in {[DictOf(its) EXCEPT
                      !.n = IF Len(its) > 5 THEN NewSize(MINSIZE, Len(its))
                            ELSE MINSIZE] : its \in {items}} : TRUE
\* an instance of a class json knows nothing about
PyObject  == V("object", 0, "", <<>>, <<>>)
Bool(b)   == V("bool", IF b THEN 1 ELSE 0, "", <<>>, <<>>)
\* '%02d' % n
TwoDigits(n) == IF n < 10 THEN "0" \o ToString(n) ELSE ToString(n)
\* datetime.date(year, month, day) of a year of four digits; s holds
\* isoformat(), which DjangoJSONEncoder writes
Date(year, month, day) ==
    V("date", 0,
      ToString(year) \o "-" \o TwoDigits(month) \o "-" \o TwoDigits(day),
      <<year, month, day>>, <<>>)

\* hash(k) of CPython 2.7 on a 64-bit build without hash randomisation (the
\* default) for the texts the values of the model have as keys; the 64 bits
\* are written in base 32, the least significant digit first
UnicodeHash ==
    "id" :> <<29, 12, 17, 1, 9, 19, 26, 21, 31, 29, 11>>
    @@ "method" :> <<29, 5, 4, 27, 0, 23, 21, 9, 9, 22, 24, 2, 12>>
    @@ "params" :> <<20, 25, 2, 2, 0, 18, 9, 0, 30, 14, 3, 18, 12>>
    @@ "result" :> <<21, 4, 1, 27, 30, 22, 3, 7, 20, 3, 6, 5, 1>>
    @@ "error" :> <<23, 11, 5, 6, 11, 9, 16, 26, 25, 21, 30, 5, 7>>
    @@ "name" :> <<5, 19, 26, 10, 14, 0, 4, 30, 22, 10, 11, 12, 12>>
    @@ "exception" :> <<2, 11, 17, 21, 3, 9, 4, 9, 20, 26, 6, 25, 4>>
    @@ "code" :> <<3, 0, 6, 5, 29, 2, 7, 12, 26, 10, 29, 23, 4>>
    @@ "message" :> <<26, 24, 10, 26, 22, 8, 25, 21, 30, 30, 30, 1, 10>>
    @@ "serviceType" :> <<2, 14, 29, 24, 0, 23, 31, 13, 28, 2, 10, 16, 3>>
    @@ "serviceURL" :> <<22, 30, 22, 15, 6, 7, 28, 15, 1, 6, 16, 22, 1>>
    @@ "methods" :> <<5, 20, 5, 4, 29, 3, 27, 13, 24, 16, 18, 0, 14>>
    @@ "summary" :> <<15, 3, 19, 5, 2, 29, 25, 25, 1, 31, 19, 14, 9>>
    @@ "return" :> <<4, 18, 28, 15, 3, 11, 2, 12, 6, 24, 14, 24, 3>>
    @@ "rpctype" :> <<30, 25, 26, 14, 3, 11, 22, 1, 14, 7, 14, 15, 3>>
    @@ "foo" :> <<27, 21, 1, 29, 29, 9, 15, 22, 28, 28, 1, 12, 12>>
    @@ "a" :> <<0, 15, 12, 27, 0, 18, 11>>
    @@ "b" :> <<3, 27, 20, 29, 26, 21, 11>>
    @@ "c" :> <<2, 7, 29, 31, 20, 25, 11>>
    @@ "x" :> <<25, 3, 13, 15, 24, 9, 14>>
    @@ "y" :> <<24, 15, 21, 17, 18, 13, 14>>
    @@ "z" :> <<27, 27, 29, 19, 12, 17, 14>>
    @@ "key" :> <<22, 6, 15, 16, 1, 1, 28, 2, 25, 6, 25, 15, 7>>
    @@ "value" :> <<14, 11, 23, 21, 0, 7, 27, 19, 29, 14, 29, 2, 9>>
    @@ "request" :> <<12, 31, 22, 6, 17, 6, 26, 27, 19, 14, 2, 11, 14>>
    @@ "username" :> <<0, 10, 15, 9, 17, 20, 20, 3, 7, 9, 13, 12, 11>>
    @@ "password" :> <<27, 18, 7, 14, 10, 11, 26, 30, 14, 20, 30, 23, 9>>
    @@ "jsonrpc" :> <<4, 23, 5, 16, 1, 14, 7, 20, 18, 10, 30, 9, 1>>
    @@ "version" :> <<19, 5, 28, 28, 9, 23, 3, 19, 22, 22, 21, 28, 1>>
    @@ "self" :> <<10, 29, 4, 28, 4, 24, 0, 16, 15, 13, 29, 12, 14>>
    @@ "method_name" :> <<16, 13, 30, 30, 0, 8, 2, 21, 16, 30, 29, 10>>
    @@ "json_data" :> <<28, 8, 20, 4, 24, 18, 3, 17, 22, 27, 22, 6>>
    @@ "d" :> <<5, 19, 5, 2, 15, 29, 11>>
    @@ "e" :> <<4, 31, 13, 4, 9, 1, 12>>
    @@ "user" :> <<21, 14, 13, 9, 9, 14, 28, 19, 15, 12, 17, 19, 5>>
    @@ "args" :> <<11, 22, 10, 30, 4, 20, 26, 22, 21, 11, 9, 17, 13>>
    @@ "kwargs" :> <<23, 17, 24, 2, 14, 4, 17, 3, 7, 6, 30, 23, 12>>

\* A dict's hash table: ma_table holds for each slot the key in it (none
\* when the slot is free; slot i is ma_table[i + 1]), ma_used counts the
\* keys.  No key is ever deleted from a dict of the model, so a slot is free
\* or holds a key.  A new table of size slots:
NewDict(size) == [ma_used |-> 0, ma_table |-> [i \in 1..size |-> <<>>]]

\* (hash >> (5 * j)) & (size - 1): the bits of the hash the probe number j
\* adds (PERTURB_SHIFT is 5); size is a power of two, at most 2^15
Perturb(hash, j, size) ==
    LET Digit(i) == IF i <= Len(hash) THEN hash[i] ELSE 0
    IN  (Digit(j + 1) + 32 * Digit(j + 2) + 1024 * Digit(j + 3)) % size

\* lookdict: the slot of the table that holds the key k or, when no slot
\* does, the free slot k goes to; i is the slot looked at, j the number of
\* slots found taken so far
RECURSIVE Slot(_, _, _, _)
Slot(table, k, i, j) ==
    IF table[i + 1] \in {<<>>, <<k>>} THEN i
    ELSE Slot(table, k,
              (5 * i + Perturb(UnicodeHash[k], j, Len(table)) + 1)
                  % Len(table),
              j + 1)

\* insertdict: k goes to its slot; a key the dict holds already stays where
\* it is
InsertKey(mp, k) ==
    LET slot == Slot(mp.ma_table, k,
                     Perturb(UnicodeHash[k], 0, Len(mp.ma_table)), 0)
    IN  IF mp.ma_table[slot + 1] # <<>> THEN mp
        ELSE [ma_used  |-> mp.ma_used + 1,
              ma_table |-> [mp.ma_table EXCEPT ![slot + 1] = <<k>>]]

\* the keys of the table in the order of its slots; taken holds the slots
\* that are not free
InSlotOrder(table) ==
    LET Nth(taken, n) ==
            CHOOSE i \in taken : Cardinality({j \in taken : j < i}) = n - 1
    IN  CHOOSE ks \in {[n \in 1..Cardinality(taken) |->
                            table[Nth(taken, n)][1]] :
                         taken \in {{i \in DOMAIN table : table[i] # <<>>}}} :
            TRUE

\* the keys ks put one after the other into a dict that has room for them;
\* each key goes into the dict as the one before has left it (next)
RECURSIVE InsertKeys(_, _)
InsertKeys(mp, ks) ==
    IF ks = <<>> THEN mp
    ELSE CHOOSE last \in {InsertKeys(next, Tail(ks)) :
                             next \in {InsertKey(mp, ks[1])}} : TRUE

\* dictresize: a table of the first power of two above minused, filled with
\* the keys of the old table in the order of its slots
Resize(mp, minused) ==
    CHOOSE r \in {InsertKeys(NewDict(NewSize(MINSIZE, minused)), ks) :
                  ks \in {InSlotOrder(mp.ma_table)}} : TRUE

\* PyDict_SetItem: the table grows to four times its keys (the dicts of the
\* model stay below the 50000 keys from which it only doubles) when a new
\* key fills two thirds of it
SetItem(mp, k) ==
    CHOOSE r \in {IF /\ set.ma_used > mp.ma_used
                     /\ 3 * set.ma_used >= 2 * Len(set.ma_table)
                  THEN Resize(set, 4 * set.ma_used)
                  ELSE set : set \in {InsertKey(mp, k)}} : TRUE

RECURSIVE SetItems(_, _)
SetItems(mp, ks) ==
    IF ks = <<>> THEN mp
    ELSE CHOOSE last \in {SetItems(next, Tail(ks)) :
                             next \in {SetItem(mp, ks[1])}} : TRUE

\* the keys of a dict in the order the dict iterates them, which is the
\* order of the slots of its hash table; inserted holds the keys in the
\* order they were put into a dict that was empty and had size slots
Keys(size, inserted) ==
    CHOOSE ks \in {InSlotOrder(mp.ma_table) :
                     mp \in {SetItems(NewDict(size), inserted)}} : TRUE

\* list(v): the keys of the dict v as it iterates them
Iter(v) == Keys(v.n, [i \in DOMAIN v.a |-> v.a[i].s])

\* ', '.join(texts)
RECURSIVE Join(_)
Join(texts) ==
    IF texts = <<>> THEN ""
    ELSE IF Len(texts) = 1 THEN texts[1]
    ELSE texts[1] \o ", " \o Join(Tail(texts))

\* repr(v): a text is written u'...' and a str '...' (those of the model
\* need no escapes), an int in digits (the ints of the model are below
\* sys.maxint, so none is a long), a date as the call that makes it, the
\* items of a list, a tuple or a dict by their repr; the keys of the dicts
\* that are formatted are texts, as json.loads makes them
RECURSIVE PyRepr(_)
PyRepr(v) ==
    CASE v.t = "unicode"  -> "u'" \o v.s \o "'"
      [] v.t = "str"      -> "'" \o v.s \o "'"
      [] v.t = "date"     ->
            "datetime.date(" \o ToString(v.a[1]) \o ", " \o ToString(v.a[2])
            \o ", " \o ToString(v.a[3]) \o ")"
      [] v.t = "int"      -> ToString(v.n)
      [] v.t = "NoneType" -> "None"
      [] v.t = "bool"     -> IF v.n = 1 THEN "True" ELSE "False"
      [] v.t = "list"     ->
            "[" \o Join([i \in DOMAIN v.a |-> PyRepr(v.a[i])]) \o "]"
      [] v.t = "tuple"    ->
            "(" \o Join([i \in DOMAIN v.a |-> PyRepr(v.a[i])])
            \o (IF Len(v.a) = 1 THEN "," ELSE "") \o ")"
      [] v.t = "dict"     ->
            CHOOSE text \in
                {"{" \o Join([i \in DOMAIN ks |->
                                "u'" \o ks[i] \o "': " \o PyRepr(v.d[ks[i]])])
                     \o "}" : ks \in {Iter(v)}} : TRUE
      [] v.t = "object"   -> "<object>"

\* '%s' % v for the values that are formatted into messages: a text, a str
\* and a date are written as they are (str of a date is its ISO form),
\* every other value as repr writes it, its items by their repr
PyStr(v) ==
    CASE v.t \in {"unicode", "str"} -> v.s
      [] v.t = "date"               -> v.s
      [] OTHER                      -> PyRepr(v)

-----------------------------------------------------------------------------
(* The error taxonomy: exceptions.py and auth.py *)

RpcExceptionCode         == 100
BadDataExceptionCode     == 101
BadMethodExceptionCode   == 102
UnknownProcessingErrorCode == 104
ProcessingExceptionCode  == 200
BadParamsExceptionCode   == 201
AuthExceptionCode        == 403

\* the classes of the taxonomy, the built-in errors handlers raise, and the
\* built-in exceptions that are no subclasses of Exception
RpcClasses == {"RpcException", "BadDataException", "BadMethodException",
               "UnknownProcessingError", "ProcessingException",
               "BadParamsException", "AuthException"}
OtherClasses == {"ValueError", "TypeError", "KeyError", "AttributeError",
                 "AssertionError", "LookupError", "StandardError"}
ExitClasses == {"SystemExit", "KeyboardInterrupt", "GeneratorExit"}
Classes == RpcClasses \cup OtherClasses \cup ExitClasses
           \cup {"Exception", "BaseException"}

\* the base class each class statement names
Base(cls) ==
    CASE cls = "RpcException"           -> "Exception"
      [] cls = "BadDataException"       -> "RpcException"
      [] cls = "BadMethodException"     -> "RpcException"
      [] cls = "UnknownProcessingError" -> "RpcException"
      [] cls = "ProcessingException"    -> "RpcException"
      [] cls = "BadParamsException"     -> "ProcessingException"
      [] cls = "AuthException"          -> "ProcessingException"
      [] cls = "Exception"              -> "BaseException"
      [] cls = "StandardError"          -> "Exception"
      [] cls = "LookupError"            -> "StandardError"
      [] cls = "KeyError"               -> "LookupError"
      [] cls = "ValueError"             -> "StandardError"
      [] cls = "TypeError"              -> "StandardError"
      [] cls = "AttributeError"         -> "StandardError"
      [] cls = "AssertionError"         -> "StandardError"
      [] cls = "SystemExit"             -> "BaseException"
      [] cls = "KeyboardInterrupt"      -> "BaseException"
      [] cls = "GeneratorExit"          -> "BaseException"

\* issubclass(cls, base)
RECURSIVE IsSubclass(_, _)
IsSubclass(cls, base) ==
    \/ cls = base
    \/ cls \in Classes \ {"BaseException"} /\ IsSubclass(Base(cls), base)

\* the class attribute `code`
Code(cls) ==
    CASE cls = "RpcException"           -> RpcExceptionCode
      [] cls = "BadDataException"       -> BadDataExceptionCode
      [] cls = "BadMethodException"     -> BadMethodExceptionCode
      [] cls = "UnknownProcessingError" -> UnknownProcessingErrorCode
      [] cls = "ProcessingException"    -> ProcessingExceptionCode
      [] cls = "BadParamsException"     -> BadParamsExceptionCode
      [] cls = "AuthException"          -> AuthExceptionCode

\* An exception instance: its class and its .message attribute (the single
\* constructor argument, or '' when it was built with none or several).
Exc(cls, message) == [cls |-> cls, message |-> message]
NoExc == Exc("", None)

BadDataException(text)       == Exc("BadDataException", Str(text))
BadMethodException(text)     == Exc("BadMethodException", Str(text))
UnknownProcessingError(text) == Exc("UnknownProcessingError", Str(text))

-----------------------------------------------------------------------------
(* The json module *)

\* the two encoders a dispatcher is built with: json's own (json_encoder is
\* None) and views.py's default
Encoders == {"None", "DjangoJSONEncoder"}

\* The request body: absent (None), the empty string, text that is not JSON,
\* or the text of the JSON value v.
Body(k, v)  == [k |-> k, v |-> v]
BodyNone    == Body("None", None)
BodyEmpty   == Body("empty", None)
BodyGarbage == Body("garbage", None)
BodyJson(v) == Body("json", v)

\* bool(json_data)
Truthy(body) == body.k \notin {"None", "empty"}

\* json.loads(text): the decoded value, or ValueError
JsonLoads(body) ==
    IF body.k = "json" THEN [ok |-> TRUE, value |-> body.v]
                       ELSE [ok |-> FALSE, value |-> None]

\* whether json.dumps(v, cls=encoder) succeeds
RECURSIVE Serializable(_, _)
Serializable(v, encoder) ==
    CASE v.t \in {"NoneType", "bool", "int", "unicode", "str"} -> TRUE
      [] v.t \in {"list", "tuple"} ->
            \A i \in DOMAIN v.a : Serializable(v.a[i], encoder)
      [] v.t = "dict" ->
            \A k \in DOMAIN v.d : Serializable(v.d[k], encoder)
      [] v.t = "date" -> encoder = "DjangoJSONEncoder"
      [] OTHER -> FALSE

\* the JSON value json.dumps writes for v, as a client decodes it; the
\* members of an object are written in the order the dict iterates its keys
RECURSIVE Written(_)
Written(v) ==
    CASE v.t \in {"list", "tuple"} ->
            List([i \in DOMAIN v.a |-> Written(v.a[i])])
      [] v.t = "dict" ->
            CHOOSE w \in {DictOf([i \in DOMAIN ks |->
                                     <<ks[i], Written(v.d[ks[i]])>>]) :
                           ks \in {Iter(v)}} : TRUE
      [] v.t \in {"date", "str"} -> Str(v.s)
      [] OTHER -> v

\* json.dumps(v, indent=JSON_INDENT, cls=encoder)
JsonDumps(v, encoder) ==
    CHOOSE r \in {IF Serializable(x, encoder)
                  THEN [ok |-> TRUE, text |-> Written(x)]
                  ELSE [ok |-> FALSE, text |-> None] : x \in {v}} : TRUE

-----------------------------------------------------------------------------
(* Registered callables.  The registry holds arbitrary Python callables;   *)
(* three shapes stand for them: add(a, b) of the specification's example,  *)
(* echo(x) and handler(), both of which also take any keyword arguments;   *)
(* handler's body is opaque to the dispatcher and returns or raises        *)
(* whatever Outcomes offers.                                               *)

\* def fn(args) or def fn(args, **kwargs) with the body code: args holds
\* the names of the parameters, none of which has a default, kw tells
\* whether the function takes any keyword, arity is the number of
\* parameters a caller fills
Callable(fn, args, kw, code) ==
    [fn |-> fn, arity |-> Len(args), args |-> args, kw |-> kw, code |-> code]

add     == Callable("add", <<"a", "b">>, FALSE, "a + b")
echo    == Callable("echo", <<"x">>, TRUE, "x")
handler == Callable("handler", <<>>, TRUE, "opaque")

\* what a callable's body did: returned value, or raised exc; auth is the
\* call of django.contrib.auth it made on the request it was passed: none,
\* <<"login", user>> or <<"logout">>
Returned(v) == [raised |-> FALSE, value |-> v, exc |-> NoExc, auth |-> <<>>]
Raised(e)   == [raised |-> TRUE, value |-> None, exc |-> e, auth |-> <<>>]

\* the values an opaque handler returns
ReturnValues ==
    {None, Num(0), Num(5), Str("ok"), List(<<Num(1), Str("a")>>),
     Tuple(<<Num(1)>>), Date(2012, 1, 31), PyObject}

\* the exceptions an opaque handler raises: errors of the taxonomy, other
\* errors, and exceptions that are no instances of Exception
RaisedExceptions ==
    {Exc("BadParamsException", Str("bad value")),
     Exc("ProcessingException", Str("failed")),
     Exc("AuthException", Str("User not authenticated")),
     Exc("BadMethodException", Str("Method x not registered here")),
     Exc("RpcException", Str("")),
     Exc("BadParamsException", PyObject),
     Exc("ValueError", Str("invalid literal")),
     Exc("ValueError", List(<<Num(1), Bytes("a"), Date(2012, 1, 31)>>)),
     Exc("KeyError", Num(7)),
     Exc("Exception", Str("")),
     Exc("SystemExit", Str("")),
     Exc("KeyboardInterrupt", Str("")),
     Exc("GeneratorExit", Str(""))}

Outcomes == {Returned(v) : v \in ReturnValues}
            \cup {Raised(e) : e \in RaisedExceptions}

\* "argument" or "arguments", as CPython words it
Plural(n) == IF n = 1 THEN "argument" ELSE "arguments"

\* the keywords of ks, in their order, that name none of names
RECURSIVE KeywordsLeft(_, _)
KeywordsLeft(ks, names) ==
    IF ks = <<>> THEN <<>>
    ELSE IF ks[1] \in names THEN KeywordsLeft(Tail(ks), names)
    ELSE <<ks[1]>> \o KeywordsLeft(Tail(ks), names)

\* Binding the positional arguments args and the keyword arguments of the
\* dict kw to the parameters of c, as CPython 2.7 does for fn(*args, **kw)
\* (PyEval_EvalCodeEx, for a function without defaults and without a star
\* parameter): "" when every parameter gets one value, else the message of
\* the TypeError.  A bound method has its self as first argument.  The
\* positional arguments fill the first parameters; then the keywords are
\* taken in the order the dict iterates them: one that names a parameter
\* fills it, and is refused when the parameter has a value; one that names
\* none goes to **kwargs, and is refused when there is no such parameter;
\* the first keyword refused makes the error.  At last every parameter must
\* have a value.
BindKeywords(c, argcount, kws) ==
    LET Index(k) == {j \in DOMAIN c.args : c.args[j] = k}
        Refused(k) == IF Index(k) # {} THEN \E j \in Index(k) : j <= argcount
                      ELSE ~c.kw
        refused  == {i \in DOMAIN kws : Refused(kws[i])}
        first    == kws[CHOOSE i \in refused : \A j \in refused : i <= j]
        filled   == argcount
                    + Cardinality({i \in DOMAIN kws : Index(kws[i]) # {}})
        takes(n) == c.fn \o "() takes exactly " \o ToString(Len(c.args))
                    \o " " \o Plural(Len(c.args)) \o " (" \o ToString(n)
                    \o " given)"
    IN  IF Len(c.args) = 0 /\ ~c.kw
        THEN IF argcount + Len(kws) > 0
             THEN c.fn \o "() takes no arguments ("
                  \o ToString(argcount + Len(kws)) \o " given)"
             ELSE ""
        ELSE IF argcount > Len(c.args)
        THEN takes(argcount + Len(kws))
        ELSE IF refused # {}
        THEN IF Index(first) # {}
             THEN c.fn \o "() got multiple values for keyword argument '"
                  \o first \o "'"
             ELSE c.fn \o "() got an unexpected keyword argument '"
                  \o first \o "'"
        ELSE IF filled < Len(c.args)
        THEN takes(filled)
        ELSE ""

\* fn(*args, **kw): argcount counts args and the self of a bound method,
\* kws are the keys of kw as the dict iterates them
BindArgs(c, args, kw) ==
    LET self == IF c.args # <<>> /\ c.args[1] = "self" THEN 1 ELSE 0
    IN  CHOOSE msg \in {BindKeywords(c, Len(args) + self, kws) :
                           kws \in {Iter(kw)}} : TRUE

\* the values the parameters of c have when the arguments are bound, self
\* left out: those of args, then those of the keywords that name the rest
BoundArgs(c, args, kw) ==
    LET self == IF c.args # <<>> /\ c.args[1] = "self" THEN 1 ELSE 0
    IN  [i \in 1..c.arity |->
            IF i <= Len(args) THEN args[i] ELSE kw.d[c.args[i + self]]]

\* the dict the parameter **kwargs of c has: the keywords that name no
\* parameter, put into a new dict in the order kw iterates them
BoundKwargs(c, kw) ==
    CHOOSE d \in {DictOf([i \in DOMAIN left |-> <<left[i], kw.d[left[i]]>>]) :
                    left \in {KeywordsLeft(ks,
                                           {c.args[j] : j \in DOMAIN c.args}) :
                                 ks \in {Iter(kw)}}} : TRUE

\* type(v).__name__ for the values a request carries
TypeName(v) == v.t

\* a + b on the values a request carries (CPython 2): numbers, a bool among
\* them, are added; texts, lists and tuples are concatenated with their
\* like and refuse anything else in their own words; every other pair is
\* unsupported
PyAdd(a, b) ==
    IF a.t \in {"int", "bool"} /\ b.t \in {"int", "bool"}
    THEN Returned(Num(a.n + b.n))
    ELSE IF a.t = "unicode"
    THEN IF b.t = "unicode" THEN Returned(Str(a.s \o b.s))
         ELSE Raised(Exc("TypeError", Str(
                  "coercing to Unicode: need string or buffer, "
                  \o TypeName(b) \o " found")))
    ELSE IF a.t \in {"list", "tuple"}
    THEN IF b.t = a.t THEN Returned(V(a.t, 0, "", a.a \o b.a, <<>>))
         ELSE Raised(Exc("TypeError", Str(
                  "can only concatenate " \o a.t \o " (not \""
                  \o TypeName(b) \o "\") to " \o a.t)))
    ELSE Raised(Exc("TypeError", Str("unsupported operand type(s) for +: '"
                    \o TypeName(a) \o "' and '" \o TypeName(b) \o "'")))

-----------------------------------------------------------------------------
(* Function objects, the rpcmethod decorator and RPCMethod                 *)
(* (rpcdispatcher.py).  A function object is a callable together with what *)
(* inspect and pydoc read from it and the attributes set on it.  It is the *)
(* def statement of one module that makes it: module and fn tell one       *)
(* function object from another, also from one with the same body.         *)

\* def fn(args): doc in module, with body c.code; arity counts the
\* parameters a caller fills, that is, all but the self of a bound method
Def(module, c, doc) ==
    [module |-> module, fn |-> c.fn, arity |-> c.arity, kw |-> c.kw,
     code |-> c.code, args |-> c.args, doc |-> doc, attrs |-> <<>>]

\* hasattr(method, a)
HasAttr(method, a) == a \in DOMAIN method.attrs

\* getattr(method, a, default)
GetAttr(method, a, default) ==
    IF HasAttr(method, a) THEN method.attrs[a] ELSE default

\* the value None of an attribute that holds a hook
NoHook == "None"

\* an argument left at its default None, and one that is passed
NotGiven == <<>>
Given(x) == <<x>>

\* the decorator rpcmethod applied to method, lines 50-72; keywords maps the
\* keyword arguments passed to their values.  set_rpcmethod_info makes no
\* copy: it sets the attributes on the function object it is given and
\* returns that object.  The value is the object as the decorator leaves it;
\* an object that is decorated is known by no other name below, neither as
\* it was before nor under a second decoration.
rpcmethod(keywords, method) ==
    LET Kw(k, default) == IF k \in DOMAIN keywords THEN keywords[k] ELSE default
    IN  [method EXCEPT !.attrs =
            [is_rpcmethod   |-> TRUE,
             signature      |-> Kw("signature", <<>>),
             permission     |-> Kw("permission", None),
             login_required |-> Kw("login_required", FALSE),
             external_name  |-> Kw("name", method.fn),
             authentication |-> Kw("authentication", NoHook),
             authorization  |-> Kw("authorization", NoHook)]
            @@ method.attrs]

\* method.authentication = ...; method.authorization = ... written by hand on
\* an undecorated function: the same object, with the two attributes
WithHooks(method, authentication, authorization) ==
    [method EXCEPT !.attrs = [authentication |-> authentication,
                              authorization  |-> authorization]
                             @@ method.attrs]

\* [arg for arg in args if arg != 'self'], line 133
ArgsWithoutSelf(method) == SelectSeq(method.args, LAMBDA a : a # "self")

\* ['object', 'object', ...], lines 134-135
DefaultSignature(args) == [i \in 1..(Len(args) + 1) |-> "object"]

\* RPCMethod.__init__, lines 112-117: the external name
MethodName(method, name) ==
    IF HasAttr(method, "external_name") THEN method.attrs["external_name"]
    ELSE IF name # NotGiven THEN name[1]
    ELSE method.fn

\* a variant of MethodSignature that keeps whatever signature is attached
MethodSignatureUnchecked(method, signature) ==
    IF HasAttr(method, "signature") THEN method.attrs["signature"]
    ELSE IF signature # NotGiven THEN signature[1]
    ELSE DefaultSignature(ArgsWithoutSelf(method))

\* RPCMethod.__init__, lines 132-145: the signature
MethodSignature(method, signature) ==
    LET args == ArgsWithoutSelf(method)
    IN  IF HasAttr(method, "signature")
           /\ Len(method.attrs["signature"]) = Len(args) + 1
        THEN method.attrs["signature"]
        ELSE IF signature # NotGiven /\ Len(args) + 1 = Len(signature[1])
        THEN signature[1]
        ELSE DefaultSignature(args)

\* RPCMethod(method, name, signature, docstring), lines 97-145: the
\* descriptor, or the AttributeError of lines 107-108
RPCMethod(method, name, signature, docstring) ==
    IF ~HasAttr(method, "authentication")
    THEN [exc |-> Exc("AttributeError", Str(
                  "'function' object has no attribute 'authentication'"))]
    ELSE IF ~HasAttr(method, "authorization")
    THEN [exc |-> Exc("AttributeError", Str(
                  "'function' object has no attribute 'authorization'"))]
    ELSE LET permission == GetAttr(method, "permission", None)
         IN  [exc            |-> NoExc,
              method         |-> method,
              help           |-> IF docstring # NotGiven THEN docstring[1]
                                 ELSE method.doc,
              signature      |-> MethodSignature(method, signature),
              name           |-> MethodName(method, name),
              permission     |-> permission,
              login_required |-> GetAttr(method, "login_required",
                                         permission # None),
              args           |-> ArgsWithoutSelf(method),
              authentication |-> method.attrs["authentication"],
              authorization  |-> method.attrs["authorization"]]

\* RPCMethod.get_returnvalue, lines 169-175
get_returnvalue(meth) ==
    IF Len(meth.signature) > 0 THEN Str(meth.signature[1]) ELSE None

\* RPCMethod.get_params, lines 177-197
get_params(meth) ==
    IF Len(meth.signature) > 0
    THEN IF Len(meth.signature) = Len(meth.args) + 1
         THEN List([i \in 1..Len(meth.args) |->
                       Dict(<<<<"name", Str(meth.args[i])>>,
                              <<"rpctype", Str(meth.signature[i + 1])>>>>)])
         ELSE List([i \in 1..Len(meth.args) |->
                       Dict(<<<<"name", Str(meth.args[i])>>,
                              <<"rpctype", Str("object")>>>>)])
    ELSE List(<<>>)

-----------------------------------------------------------------------------
(* The methods RPCDispatcher registers itself (rpcdispatcher.py, lines     *)
(* 273-352).  Each takes the descriptors of the dispatcher it is bound to. *)

\* The external names of the model in the order Python sorts str (byte by
\* byte: '.' before the capitals, the capitals before the small letters).
SortedNames ==
    <<"Ping", "add", "echo", "grant", "math.add", "status", "system.describe",
      "system.listMethods", "system.login", "system.logout",
      "system.methodHelp", "system.methodSignature", "whoami">>

\* the place of each name in that order
Rank ==
    [n \in {SortedNames[i] : i \in DOMAIN SortedNames} |->
        CHOOSE i \in DOMAIN SortedNames : SortedNames[i] = n]

\* a < b on str
Less(a, b) == Rank[a] < Rank[b]

\* names with n put before the first name that is not less than n
RECURSIVE Insert(_, _)
Insert(n, names) ==
    IF names = <<>> THEN <<n>>
    ELSE IF Less(names[1], n) THEN <<names[1]>> \o Insert(n, Tail(names))
    ELSE <<n>> \o names

\* list.sort()
RECURSIVE Sort(_)
Sort(names) ==
    IF names = <<>> THEN <<>> ELSE Insert(names[1], Sort(Tail(names)))

\* [method.name for method in self.rpcmethods]
MethodNames(rpcms) == [i \in DOMAIN rpcms |-> rpcms[i].name]

\* a variant of SystemListMethods that leaves the names in registration order
SystemListMethodsUnsorted(rpcms) ==
    Returned(List([i \in DOMAIN rpcms |-> Str(rpcms[i].name)]))

\* system_listmethods, lines 290-298
SystemListMethods(rpcms) ==
    LET sorted == Sort(MethodNames(rpcms))
    IN  Returned(List([i \in DOMAIN sorted |-> Str(sorted[i])]))

\* the first descriptor whose name equals the Python value method_name, as
\* the loops of lines 306-308 and 318-320 find it; <<>> when there is none
Lookup(rpcms, method_name) ==
    LET found == {i \in DOMAIN rpcms : method_name.t \in {"unicode", "str"}
                                       /\ rpcms[i].name = method_name.s}
    IN  IF found = {} THEN <<>>
        ELSE <<rpcms[CHOOSE i \in found : \A j \in found : i <= j]>>

\* the arguments of format % v: the items of v when v is a tuple, else v
FormatArgs(v) == IF v.t = "tuple" THEN v.a ELSE <<v>>

\* a variant of NotRegistered that raises the wrong class
NotRegisteredAsBadData(method_name) ==
    BadDataException("Method " \o PyStr(method_name)
                     \o " not registered here")

\* lines 310 and 322: the exception that is raised.  The one %s of the
\* format takes one argument, written as str() writes it; with a tuple of
\* none or of several the formatting itself raises TypeError, and no
\* BadMethodException is made
NotRegistered(method_name) ==
    LET args == FormatArgs(method_name)
    IN  IF args = <<>>
        THEN Exc("TypeError", Str("not enough arguments for format string"))
        ELSE IF Len(args) > 1
        THEN Exc("TypeError", Str(
                 "not all arguments converted during string formatting"))
        ELSE BadMethodException("Method " \o PyStr(args[1])
                                \o " not registered here")

\* system_methodhelp, lines 300-310
SystemMethodHelp(rpcms, method_name) ==
    LET found == Lookup(rpcms, method_name)
    IN  IF found # <<>> THEN Returned(Str(found[1].help))
        ELSE Raised(NotRegistered(method_name))

\* system_methodsignature, lines 312-322
SystemMethodSignature(rpcms, method_name) ==
    LET found == Lookup(rpcms, method_name)
    IN  IF found # <<>>
        THEN Returned(List([i \in DOMAIN found[1].signature |->
                               Str(found[1].signature[i])]))
        ELSE Raised(NotRegistered(method_name))

\* system_describe, lines 273-288, of a dispatcher whose self.url is url;
\* the trailing comma of line 281 makes the service URL a tuple
SystemDescribe(rpcms, url) ==
    Returned(Dict(
        <<<<"serviceType", Str("RPC4Django JSONRPC")>>,
          <<"serviceURL", Tuple(<<Str(url)>>)>>,
          <<"methods",
            List([i \in DOMAIN rpcms |->
                     Dict(<<<<"name", Str(rpcms[i].name)>>,
                            <<"summary", Str(rpcms[i].help)>>,
                            <<"params", get_params(rpcms[i])>>,
                            <<"return", get_returnvalue(rpcms[i])>>>>)])>>>>))

\* The accounts django.contrib.auth knows: an active user, a member of the
\* staff, and a user who is no longer active.
Account(name, password, active, staff, superuser, perms) ==
    [name |-> name, password |-> password, is_active |-> active,
     is_staff |-> staff, is_superuser |-> superuser, perms |-> perms]
Accounts ==
    {Account("alice", "wonder", TRUE, FALSE, FALSE, {}),
     Account("root", "toor", TRUE, TRUE, TRUE, {"add_group"}),
     Account("bob", "builder", FALSE, FALSE, FALSE, {})}

\* django's AnonymousUser: an object, so truthy, that is not authenticated
\* and has no rights
AnonymousUser == Account("", "", FALSE, FALSE, FALSE, {})

\* django.contrib.auth.login(request, user): the session of the request
\* holds the user from now on, and a request that has the attribute user has
\* this user
login(req, user) ==
    [req EXCEPT !.session = <<user.name>>,
                !.user = IF @ # <<>> THEN <<user>> ELSE @]

\* django.contrib.auth.logout(request): the session is flushed, and a
\* request that has the attribute user has the AnonymousUser
logout(req) ==
    [req EXCEPT !.session = <<>>,
                !.user = IF @ # <<>> THEN <<AnonymousUser>> ELSE @]

\* the request after the call of django.contrib.auth a body has made on it
SessionAfter(auth, req) ==
    IF auth = <<>> THEN req
    ELSE IF auth[1] = "login" THEN login(req, auth[2])
    ELSE logout(req)

\* django.contrib.auth.authenticate(username=..., password=...): the
\* accounts with these credentials (one, or none for None)
Authenticate(username, password) ==
    {u \in Accounts : /\ username.t \in {"unicode", "str"}
                      /\ username.s = u.name
                      /\ password.t \in {"unicode", "str"}
                      /\ password.s = u.password}

\* the HttpRequest object a caller of dispatch passes as request=...: the
\* one the variable request holds
RequestObject == V("HttpRequest", 0, "", <<>>, <<>>)

\* kwargs.get(key, default)
KwargsGet(kw, key, default) ==
    IF key \in DOMAIN kw.d THEN kw.d[key] ELSE default

\* system_login, lines 324-338
SystemLogin(username, password, kw) ==
    LET req   == KwargsGet(kw, "request", None)
        users == Authenticate(username, password)
    IN  IF users # {} /\ req # None /\ \A u \in users : u.is_active
        THEN [Returned(Bool(TRUE)) EXCEPT
                 !.auth = <<"login", CHOOSE u \in users : TRUE>>]
        ELSE Returned(Bool(FALSE))

\* system_logout, lines 340-352
SystemLogout(kw) ==
    IF KwargsGet(kw, "request", None) # None
    THEN [Returned(Bool(TRUE)) EXCEPT !.auth = <<"logout">>]
    ELSE Returned(Bool(FALSE))

\* a method of the RPCDispatcher instance: self is bound
Method(fn, params, code, doc) ==
    [module |-> "rpc4django.rpcdispatcher", fn |-> fn, arity |-> Len(params),
     kw |-> TRUE, code |-> code, args |-> <<"self">> \o params, doc |-> doc,
     attrs |-> <<>>]

system_describe ==
    rpcmethod([name |-> "system.describe", signature |-> <<"struct">>],
        Method("system_describe", <<>>, "system_describe",
          "Returns a simple method description of the methods supported"))

system_listmethods ==
    rpcmethod([name |-> "system.listMethods", signature |-> <<"array">>],
        Method("system_listmethods", <<>>, "system_listmethods",
          "Returns a list of supported methods"))

system_methodhelp ==
    rpcmethod([name |-> "system.methodHelp",
               signature |-> <<"string", "string">>],
        Method("system_methodhelp", <<"method_name">>, "system_methodhelp",
          "Returns documentation for a specified method"))

system_methodsignature ==
    rpcmethod([name |-> "system.methodSignature",
               signature |-> <<"array", "string">>],
        Method("system_methodsignature", <<"method_name">>,
          "system_methodsignature",
          "Returns the signature for a specified method"))

system_login ==
    rpcmethod([name |-> "system.login",
               signature |-> <<"boolean", "string", "string">>],
        Method("system_login", <<"username", "password">>, "system_login",
          "Authorizes a user to enable sending protected RPC requests"))

system_logout ==
    rpcmethod([name |-> "system.logout", signature |-> <<"boolean">>],
        Method("system_logout", <<>>, "system_logout", "Deauthorizes a user"))

-----------------------------------------------------------------------------
(* Calling *)

\* the callable's body on the values args of its parameters and the dict kw
\* of its **kwargs; o is what an opaque body does
Body_(c, args, kw, o) ==
    CASE c.code = "a + b" -> PyAdd(args[1], args[2])
      [] c.code = "x"     -> Returned(args[1])
      [] c.code = "system_describe"    ->
            SystemDescribe(rpcmethods, config[1].url)
      [] c.code = "system_listmethods" -> SystemListMethods(rpcmethods)
      [] c.code = "system_methodhelp"  ->
            SystemMethodHelp(rpcmethods, args[1])
      [] c.code = "system_methodsignature" ->
            SystemMethodSignature(rpcmethods, args[1])
      [] c.code = "system_login"  -> SystemLogin(args[1], args[2], kw)
      [] c.code = "system_logout" -> SystemLogout(kw)
      [] OTHER            -> o

\* a variant of Call that reports arguments that do not fit as
\* BadParamsException
CallBadParams(c, args, kw, o) ==
    LET msg == BindArgs(c, args, kw)
    IN  IF msg # ""
        THEN [ran |-> FALSE,
              out |-> Raised(Exc("BadParamsException", Str(msg)))]
        ELSE [ran |-> TRUE,
              out |-> CHOOSE b \in {Body_(c, a, k, o) :
                                       a \in {BoundArgs(c, args, kw)},
                                       k \in {BoundKwargs(c, kw)}} : TRUE]

\* Calling c with positional args and the keyword arguments of the dict kw,
\* c(*args, **kw): what the call did, and whether the body ran at all.  The
\* body runs on the values its parameters are bound to.
Call(c, args, kw, o) ==
    LET msg == BindArgs(c, args, kw)
    IN  IF msg # ""
        THEN [ran |-> FALSE, out |-> Raised(Exc("TypeError", Str(msg)))]
        ELSE [ran |-> TRUE,
              out |-> CHOOSE b \in {Body_(c, a, k, o) :
                                       a \in {BoundArgs(c, args, kw)},
                                       k \in {BoundKwargs(c, kw)}} : TRUE]

-----------------------------------------------------------------------------
(* JSONRPCDispatcher *)

\* the code of the fixed envelope that replaces one that cannot be encoded
FailedToEncodeCode == 100

\* bool(v)
PyTruth(v) ==
    CASE v.t = "NoneType"          -> FALSE
      [] v.t \in {"int", "bool"}   -> v.n # 0
      [] v.t \in {"unicode", "str"} -> v.s # ""
      [] v.t \in {"list", "tuple"} -> v.a # <<>>
      [] v.t = "dict"              -> DOMAIN v.d # {}
      [] OTHER                     -> TRUE

\* d.get(k, default)
DictGet(v, k, default) == IF k \in DOMAIN v.d THEN v.d[k] ELSE default

\* a variant of ErrorMember in which `if error:` finds the error falsy
ErrorMemberDropped(error) == None

\* _encode_result, lines 52-58: the 'error' member; error is NoExc when no
\* error is passed
ErrorMember(error) ==
    IF error # NoExc
    THEN Dict(<<<<"name", Str("JSONRPCError")>>,
                <<"exception", Str(error.cls)>>,
                <<"code", Num(Code(error.cls))>>,
                <<"message", error.message>>>>)
    ELSE None

\* a variant of Envelope that does not echo the id
EnvelopeWithoutId(id, res, err) ==
    Dict(<<<<"id", Str("")>>, <<"result", res>>, <<"error", err>>>>)

\* _encode_result, lines 59-63: the envelope
Envelope(id, res, err) ==
    Dict(<<<<"id", id>>, <<"result", res>>, <<"error", err>>>>)

\* a variant of FailedEnvelope that keeps the result it could not encode
FailedEnvelopeKeepsResult(id, res) ==
    Dict(<<<<"id", id>>, <<"result", res>>,
           <<"error",
             Dict(<<<<"message", Str("Failed to encode return value")>>,
                    <<"code", Num(FailedToEncodeCode)>>,
                    <<"name", Str("JSONRPCError")>>,
                    <<"exception", Str("RpcException")>>>>)>>>>)

\* _encode_result, lines 67-77: the envelope that replaces one that cannot be
\* encoded
FailedEnvelope(id, res) ==
    Dict(<<<<"id", id>>, <<"result", None>>,
           <<"error",
             Dict(<<<<"message", Str("Failed to encode return value")>>,
                    <<"code", Num(FailedToEncodeCode)>>,
                    <<"name", Str("JSONRPCError")>>,
                    <<"exception", Str("RpcException")>>>>)>>>>)

\* _encode_result(api_call_id, result, error).  ok is FALSE when
\* _encode_result itself raises an instance of cls: an assertion fails, or
\* the second json.dumps, which no try block guards, raises.
EncodeResult(encoder, id, res, error) ==
    LET first  == JsonDumps(Envelope(id, res, ErrorMember(error)), encoder)
        second == JsonDumps(FailedEnvelope(id, res), encoder)
    IN  IF ~(error = NoExc \/ IsSubclass(error.cls, "RpcException"))
        THEN [ok |-> FALSE, cls |-> "AssertionError", text |-> None]
        ELSE IF PyTruth(res) /\ error # NoExc
        THEN [ok |-> FALSE, cls |-> "AssertionError", text |-> None]
        ELSE IF first.ok THEN [ok |-> TRUE, cls |-> "", text |-> first.text]
        ELSE IF second.ok THEN [ok |-> TRUE, cls |-> "", text |-> second.text]
        ELSE [ok |-> FALSE, cls |-> "TypeError", text |-> None]

\* a variant of NotJson that raises the wrong class
NotJsonAsBadMethod == BadMethodException("JSON decoding error")

\* dispatch, lines 105-106: what a ValueError of json.loads becomes
NotJson == BadDataException("JSON decoding error")

\* dispatch, lines 99-111: the body must be there, be JSON, and be an object
DecodeBody(body) ==
    IF ~Truthy(body)
    THEN [exc |-> BadDataException("No POST data"), jsondict |-> None]
    ELSE LET r == JsonLoads(body)
         IN  IF ~r.ok
             THEN [exc |-> NotJson, jsondict |-> None]
             ELSE IF r.value.t # "dict"
             THEN [exc |-> BadDataException(
                      "JSON does not contain dict as its root object"),
                   jsondict |-> None]
             ELSE [exc |-> NoExc, jsondict |-> r.value]

\* a variant of ValidateRequest that reads the id after the keys are checked
ValidateRequestIdLate(d) ==
    IF ~("method" \in DOMAIN d.d) \/ ~("params" \in DOMAIN d.d)
    THEN [id |-> Str(""), exc |-> BadDataException(
             "JSON must contain attributes method and params")]
    ELSE IF d.d["method"].t # "unicode"
    THEN [id |-> DictGet(d, "id", Str("")),
          exc |-> BadMethodException("JSON Wrong parameter method")]
    ELSE IF d.d["params"].t # "list"
    THEN [id |-> DictGet(d, "id", Str("")), exc |-> BadMethodException(
             "JSON method params has to be Array")]
    ELSE [id |-> DictGet(d, "id", Str("")), exc |-> NoExc]

\* a variant of ValidateRequest that does not check the type of params
ValidateRequestAnyParams(d) ==
    IF ~("method" \in DOMAIN d.d) \/ ~("params" \in DOMAIN d.d)
    THEN [id |-> DictGet(d, "id", Str("")), exc |-> BadDataException(
             "JSON must contain attributes method and params")]
    ELSE IF d.d["method"].t # "unicode"
    THEN [id |-> DictGet(d, "id", Str("")),
          exc |-> BadMethodException("JSON Wrong parameter method")]
    ELSE [id |-> DictGet(d, "id", Str("")), exc |-> NoExc]

\* a variant of ValidateRequest that checks the type of method before it
\* checks that both keys are there
ValidateRequestTypeFirst(d) ==
    IF "method" \in DOMAIN d.d /\ d.d["method"].t # "unicode"
    THEN [id |-> DictGet(d, "id", Str("")),
          exc |-> BadMethodException("JSON Wrong parameter method")]
    ELSE IF ~("method" \in DOMAIN d.d) \/ ~("params" \in DOMAIN d.d)
    THEN [id |-> DictGet(d, "id", Str("")), exc |-> BadDataException(
             "JSON must contain attributes method and params")]
    ELSE IF d.d["params"].t # "list"
    THEN [id |-> DictGet(d, "id", Str("")), exc |-> BadMethodException(
             "JSON method params has to be Array")]
    ELSE [id |-> DictGet(d, "id", Str("")), exc |-> NoExc]

\* dispatch, lines 113-124: the id is read, then the keys and their types
\* are checked
ValidateRequest(d) ==
    LET id == DictGet(d, "id", Str(""))
    IN  IF ~("method" \in DOMAIN d.d) \/ ~("params" \in DOMAIN d.d)
        THEN [id |-> id, exc |-> BadDataException(
                 "JSON must contain attributes method and params")]
        ELSE IF d.d["method"].t # "unicode"
        THEN [id |-> id,
              exc |-> BadMethodException("JSON Wrong parameter method")]
        ELSE IF d.d["params"].t # "list"
        THEN [id |-> id, exc |-> BadMethodException(
                 "JSON method params has to be Array")]
        ELSE [id |-> id, exc |-> NoExc]

\* a variant of RouteRequest that raises the wrong class
RouteRequestBadData(registry, d) ==
    IF d.d["method"].s \notin DOMAIN registry
    THEN BadDataException("Called method " \o d.d["method"].s
             \o " does not exist in this api, see system.listMethods")
    ELSE NoExc

\* dispatch, lines 126-127: the method must be registered
RouteRequest(registry, d) ==
    IF d.d["method"].s \notin DOMAIN registry
    THEN BadMethodException("Called method " \o d.d["method"].s
             \o " does not exist in this api, see system.listMethods")
    ELSE NoExc

\* a variant of ExceptClause with the two clauses in the other order
ExceptClauseSwapped(e) ==
    IF IsSubclass(e.cls, "Exception") THEN "Exception"
    ELSE IF IsSubclass(e.cls, "RpcException") THEN "RpcException"
    ELSE "uncaught"

\* dispatch, lines 132 and 136: the except clause that catches e
ExceptClause(e) ==
    IF IsSubclass(e.cls, "RpcException") THEN "RpcException"
    ELSE IF IsSubclass(e.cls, "Exception") THEN "Exception"
    ELSE "uncaught"

\* dispatch, line 138: the error an exception outside the taxonomy becomes
WrapUnknown(e) ==
    UnknownProcessingError(e.cls \o ": " \o PyStr(e.message))

-----------------------------------------------------------------------------
(* The inputs *)

\* external names methods are registered under, and names requests ask for
RegisteredNames == {"add", "echo", "f"}
RequestedNames  == RegisteredNames \cup {"nope"}

\* the items of a request's params array
ParamValues == {Num(2), Num(3), Str("a")}
ParamLists  ==
    {List(a) : a \in UNION {[1..n -> ParamValues] : n \in 0..MaxParams}}

\* a key a request object does not have
Absent == V("absent", 0, "", <<>>, <<>>)

IdFields     == {Absent, Str("y"), None}
MethodFields == {Absent, Num(1)} \cup {Str(n) : n \in RequestedNames}
ParamsFields == {Absent, Str("x")} \cup ParamLists

Field(k, v) == IF v = Absent THEN <<>> ELSE <<<<k, v>>>>

\* the JSON object with the given id, method and params members, which its
\* text holds in this order
Request(id, method, params) ==
    Dict(Field("id", id) \o Field("method", method)
         \o Field("params", params))

Bodies ==
    {BodyNone, BodyEmpty, BodyGarbage}
    \cup {BodyJson(v) : v \in {None, Num(1), Str("x"), List(<<>>),
                               Dict(<<<<"foo", Num(1)>>>>)}}
    \cup {BodyJson(Request(i, m, p)) :
             i \in IdFields, m \in MethodFields, p \in ParamsFields}

\* the dict dispatch has as **kwargs when it is called with the keywords
\* items, pairs of name and value in the order they are written
Kwargs(items) == DictOf(items)

\* the keyword arguments dispatch is called with: none, request=<the
\* request>, as serve_rpc_request passes it, request=None, or b=3, a
\* keyword that bears the name of a parameter of add
NoKwargs == Kwargs(<<>>)
KwargsSets ==
    {NoKwargs,
     Kwargs(<<<<"request", RequestObject>>>>),
     Kwargs(<<<<"request", None>>>>),
     Kwargs(<<<<"b", Num(3)>>>>)}

-----------------------------------------------------------------------------
(* The state machine *)

\* no dispatch call is in progress
Fresh ==
    /\ pc = "idle"
    /\ json_data = BodyNone
    /\ kwargs = NoKwargs
    /\ api_call_id = Str("")
    /\ jsondict = None
    /\ result = None
    /\ exc = NoExc
    /\ origin = ""
    /\ invoked = 0
    /\ executed = 0
    /\ callee = <<>>
    /\ seen = <<>>
    /\ response = <<>>
    /\ trace = <<>>

\* no register_method call has been made; otherwise reg holds the number of
\* calls made, the arguments of the last one, the descriptor it built, the
\* error it raised, whether line 427 found the descriptor's name registered
\* already, and the line the call is about to run (0 once it has returned or
\* raised)
NoReg ==
    [n |-> 0, call |-> <<>>, dup |-> FALSE, exc |-> NoExc, meth |-> <<>>,
     line |-> 0]

\* there is no RPCDispatcher around the JSONRPCDispatcher
NoRegistry ==
    /\ rpcmethods = <<>>
    /\ reg = NoReg
    /\ firsts = <<>>
    /\ config = <<>>

\* no request is being served
NoRequest ==
    [method |-> "", content_type |-> None, raw_post_data |-> BodyNone,
     user |-> <<>>, authorization |-> <<>>, session |-> <<>>,
     assigned |-> <<>>]
NoView ==
    /\ request = NoRequest
    /\ vpc = "idle"
    /\ http = [kind |-> "", caught |-> NoExc, exc |-> NoExc,
               content_type |-> "", content |-> None]

\* the locals of a thread that is not inside dispatch
FreshLocals ==
    [pc |-> "idle", json_data |-> BodyNone, kwargs |-> NoKwargs,
     api_call_id |-> Str(""), jsondict |-> None, result |-> None,
     exc |-> NoExc, origin |-> "", invoked |-> 0, executed |-> 0,
     callee |-> <<>>, seen |-> <<>>, response |-> <<>>, trace |-> <<>>]

\* JSONRPCDispatcher.__init__
Init ==
    /\ methods = <<>>
    /\ json_encoder \in Encoders
    /\ Fresh
    /\ NoRegistry
    /\ NoView
    /\ waiting = FreshLocals

\* JSONRPCDispatcher.register_function, line 46
RegisterFunction(registry, method, external_name) ==
    [n \in DOMAIN registry \cup {external_name} |->
        IF n = external_name THEN method ELSE registry[n]]

\* JSONRPCDispatcher.register_function, lines 40-46, called by any thread at
\* any time: nothing keeps it from running while a dispatch call is under
\* way
register_function(method, external_name) ==
    /\ Cardinality(DOMAIN methods \cup {external_name}) <= MaxMethods
    /\ methods' = RegisterFunction(methods, method, external_name)
    /\ UNCHANGED <<json_encoder, locals, rpcdispatcher, view, waiting>>

\* dispatch is entered (line 96)
Start(body, kw) ==
    /\ pc = "idle"
    /\ pc' = "started"
    /\ json_data' = body
    /\ kwargs' = kw
    /\ api_call_id' = Str("")
    /\ UNCHANGED <<methods, json_encoder, jsondict, result, exc, origin,
                   invoked, executed, callee, seen, response, trace>>
    /\ UNCHANGED <<rpcdispatcher, view, waiting>>

\* lines 99-111
Decode ==
    /\ pc = "started"
    /\ LET r == DecodeBody(json_data)
       IN  IF r.exc # NoExc
           THEN /\ pc' = "raised"
                /\ exc' = r.exc
                /\ origin' = "decode"
                /\ UNCHANGED jsondict
           ELSE /\ pc' = "decoded"
                /\ jsondict' = r.jsondict
                /\ UNCHANGED <<exc, origin>>
    /\ UNCHANGED <<methods, json_encoder, json_data, kwargs, api_call_id,
                   result, invoked, executed, callee, seen, response, trace>>
    /\ UNCHANGED <<rpcdispatcher, view, waiting>>

\* lines 113-124
Validate ==
    /\ pc = "decoded"
    /\ LET r == ValidateRequest(jsondict)
       IN  /\ api_call_id' = r.id
           /\ IF r.exc # NoExc
              THEN /\ pc' = "raised"
                   /\ exc' = r.exc
                   /\ origin' = "validate"
              ELSE /\ pc' = "validated"
                   /\ UNCHANGED <<exc, origin>>
    /\ UNCHANGED <<methods, json_encoder, json_data, kwargs, jsondict,
                   result, invoked, executed, callee, seen, response, trace>>
    /\ UNCHANGED <<rpcdispatcher, view, waiting>>

\* lines 126-127
Route ==
    /\ pc = "validated"
    /\ LET e == RouteRequest(methods, jsondict)
       IN  IF e # NoExc
           THEN /\ pc' = "raised"
                /\ exc' = e
                /\ origin' = "route"
           ELSE /\ pc' = "routed"
                /\ UNCHANGED <<exc, origin>>
    /\ callee' = LET name == DictGet(jsondict, "method", None).s
                IN  IF name \in DOMAIN methods THEN <<methods[name]>>
                    ELSE <<>>
    /\ UNCHANGED <<methods, json_encoder, json_data, kwargs, api_call_id,
                   jsondict, result, invoked, executed, seen, response,
                   trace>>
    /\ UNCHANGED <<rpcdispatcher, view, waiting>>

\* line 129: the registered callable is called
Invoke ==
    /\ pc = "routed"
    /\ \E o \in Outcomes :
         \E r \in {Call(methods[DictGet(jsondict, "method", None).s],
                         DictGet(jsondict, "params", None).a, kwargs, o)} :
             /\ invoked' = invoked + 1
             /\ callee' = <<methods[DictGet(jsondict, "method", None).s]>>
             /\ seen' = rpcmethods
             /\ trace' = Append(trace, "handler")
             /\ executed' = IF r.ran THEN executed + 1 ELSE executed
             /\ request' = SessionAfter(r.out.auth, request)
             /\ IF r.out.raised
                THEN /\ pc' = "raised"
                     /\ exc' = r.out.exc
                     /\ origin' = IF r.ran THEN "handler" ELSE "call"
                     /\ UNCHANGED result
                ELSE /\ pc' = "invoked"
                     /\ result' = r.out.value
                     /\ UNCHANGED <<exc, origin>>
    /\ UNCHANGED <<methods, json_encoder, json_data, kwargs, api_call_id,
                   jsondict, response>>
    /\ UNCHANGED <<rpcdispatcher, vpc, http, waiting>>

\* line 130: the result is encoded and returned; what _encode_result raises
\* is raised inside the try block
EncodeSuccess ==
    /\ pc = "invoked"
    /\ \E r \in {EncodeResult(json_encoder, api_call_id, result, NoExc)} :
           IF r.ok
           THEN /\ pc' = "encoded"
                /\ response' = Append(response, r.text)
                /\ UNCHANGED <<exc, origin>>
           ELSE /\ pc' = "raised"
                /\ exc' = Exc(r.cls, Str(""))
                /\ origin' = "encode"
                /\ UNCHANGED response
    /\ UNCHANGED <<methods, json_encoder, json_data, kwargs, api_call_id,
                   jsondict, result, invoked, executed, callee, seen, trace>>
    /\ UNCHANGED <<rpcdispatcher, view, waiting>>

\* lines 132-138: the except clauses; what is raised inside them, or caught
\* by neither, leaves dispatch
Except ==
    /\ pc = "raised"
    /\ \E clause \in {ExceptClause(exc)} :
       \E error \in {IF clause = "RpcException" THEN exc
                     ELSE WrapUnknown(exc)} :
       \E r \in {EncodeResult(json_encoder, api_call_id, None, error)} :
               IF clause # "uncaught" /\ r.ok
               THEN /\ pc' = "encoded"
                    /\ response' = Append(response, r.text)
               ELSE /\ pc' = "escaped"
                    /\ UNCHANGED response
    /\ UNCHANGED <<methods, json_encoder, json_data, kwargs, api_call_id,
                   jsondict, result, exc, origin, invoked, executed, callee,
                   seen, trace>>
    /\ UNCHANGED <<rpcdispatcher, view, waiting>>

\* dispatch has returned (or an exception has left it); the caller is free to
\* call again, and each call comes with a request object of its own
Return ==
    /\ pc \in {"encoded", "escaped"}
    /\ pc' = "idle"
    /\ json_data' = BodyNone
    /\ kwargs' = NoKwargs
    /\ api_call_id' = Str("")
    /\ jsondict' = None
    /\ result' = None
    /\ exc' = NoExc
    /\ origin' = ""
    /\ invoked' = 0
    /\ executed' = 0
    /\ callee' = <<>>
    /\ seen' = <<>>
    /\ response' = <<>>
    /\ trace' = <<>>
    /\ request' = NoRequest
    /\ UNCHANGED <<methods, json_encoder, rpcdispatcher, vpc, http, waiting>>

\* one step inside dispatch
Step == Decode \/ Validate \/ Route \/ Invoke \/ EncodeSuccess \/ Except

\* the life of a dispatcher whose registry is complete
Serve ==
    \/ pc = "idle" /\ \E b \in Bodies, kw \in KwargsSets : Start(b, kw)
    \/ Step
    \/ Return

\* the register_function calls the threads make: a name is given one
\* callable or, in turn, two of different parameters
RegisterCalls ==
    {<<add, "add">>, <<echo, "add">>, <<echo, "echo">>, <<handler, "f">>}

Next ==
    \/ \E c \in RegisterCalls : register_function(c[1], c[2])
    \/ Serve

Spec == Init /\ [][Next]_vars

\* registries as register_function leaves them once start-up is over
Registries ==
    {<<>>,
     "add" :> add,
     "add" :> add @@ "f" :> handler,
     "echo" :> echo @@ "f" :> handler}

\* start-up is over: the registry is built and no longer changes
InitServing ==
    /\ methods \in Registries
    /\ json_encoder \in Encoders
    /\ Fresh
    /\ NoRegistry
    /\ NoView
    /\ waiting = FreshLocals

\* dispatch is synchronous code: once entered it runs on to its return
FairSpec == InitServing /\ [][Serve]_vars /\ WF_vars(Step)

-----------------------------------------------------------------------------
(* RPCDispatcher (rpcdispatcher.py, lines 200-429) *)

\* the def statements of the applications: add(a, b), echo(x, **kwargs) and
\* handler(**kwargs), each defined in several modules
add_function(module)     == Def(module, add, "Adds two numbers")
echo_function(module)    == Def(module, echo, "Returns its argument")
handler_function(module) == Def(module, handler, "")

\* a function that no decorator is applied to and no attribute is set on
plain_add    == add_function("app.plain")

\* functions the rpcmethod decorator is applied to
rpc_add      == rpcmethod(<<>>, add_function("app.calc"))
rpc_math_add == rpcmethod([name |-> "math.add",
                           signature |-> <<"int", "int", "int">>],
                          add_function("app.maths"))
rpc_echo_add == rpcmethod([name |-> "add", signature |-> <<"string">>],
                          echo_function("app.alias"))
rpc_echo     == rpcmethod([signature |-> <<"string", "string", "string">>],
                          echo_function("app.echo"))
rpc_ping     == rpcmethod([name |-> "Ping", login_required |-> TRUE],
                          handler_function("app.ping"))
rpc_listing  == rpcmethod([name |-> "system.listMethods"],
                          echo_function("app.listing"))

\* functions with attributes set by hand: the two hooks, which is what
\* RPCMethod asks for, and the mark register_rpcmethods looks for without
\* the hooks
hooked_echo  == WithHooks(echo_function("app.hooked"), NoHook, NoHook)
marked_echo  ==
    [echo_function("app.marked") EXCEPT
        !.attrs = [is_rpcmethod |-> TRUE, external_name |-> "echo"]]

\* a register_method call: its arguments
Registration(method, name, signature, helpmsg) ==
    [method |-> method, name |-> name, signature |-> signature,
     helpmsg |-> helpmsg]

\* the register_method calls an application makes
Registrations ==
    {Registration(rpc_add, NotGiven, NotGiven, NotGiven),
     Registration(rpc_echo_add, NotGiven, Given(<<"string", "string">>),
                  Given("Echo under another name")),
     Registration(rpc_math_add, Given("add"),
                  Given(<<"object", "int", "int">>), NotGiven),
     Registration(rpc_echo, NotGiven, NotGiven, NotGiven),
     Registration(rpc_ping, NotGiven, Given(<<>>), NotGiven),
     Registration(hooked_echo, Given("whoami"), Given(<<"string">>),
                  NotGiven),
     Registration(hooked_echo, NotGiven, Given(<<"string", "string">>),
                  NotGiven),
     Registration(rpc_listing, NotGiven,
                  Given(<<"string", "string", "string">>), NotGiven),
     Registration(plain_add, Given("add"), NotGiven, NotGiven)}

\* the register_method calls made after the dispatcher is built
MaxCalls == 2

\* meth.name not in self.system_listmethods(), line 427
Listed(rpcms, name) ==
    LET listed == SystemListMethods(rpcms).value.a
    IN  \E i \in DOMAIN listed : listed[i] = Str(name)

\* a variant of RegisterMethod that hands every callable to
\* register_function, and appends the descriptor only under a new name
RegisterMethodRebind(rpcms, registry, method, name, signature, helpmsg) ==
    LET meth == RPCMethod(method, name, signature, helpmsg)
    IN  IF meth.exc # NoExc
        THEN [exc |-> meth.exc, meth |-> <<>>, dup |-> FALSE,
              rpcmethods |-> rpcms, methods |-> registry]
        ELSE [exc |-> NoExc, meth |-> <<meth>>,
              dup |-> Listed(rpcms, meth.name),
              rpcmethods |-> IF Listed(rpcms, meth.name) THEN rpcms
                             ELSE Append(rpcms, meth),
              methods |-> RegisterFunction(registry, method, meth.name)]

\* register_method, lines 425-429, run from its first line to its return
\* with no other thread at work on the dispatcher: the error raised, the
\* descriptor built, and the two collections afterwards
RegisterMethod(rpcms, registry, method, name, signature, helpmsg) ==
    LET meth == RPCMethod(method, name, signature, helpmsg)
    IN  IF meth.exc # NoExc
        THEN [exc |-> meth.exc, meth |-> <<>>, dup |-> FALSE,
              rpcmethods |-> rpcms, methods |-> registry]
        ELSE IF ~Listed(rpcms, meth.name)
        THEN [exc |-> NoExc, meth |-> <<meth>>, dup |-> FALSE,
              rpcmethods |-> Append(rpcms, meth),
              methods |-> RegisterFunction(registry, method, meth.name)]
        ELSE [exc |-> NoExc, meth |-> <<meth>>, dup |-> TRUE,
              rpcmethods |-> rpcms, methods |-> registry]

\* the descriptor first appended to rpcmethods under each name: appended
\* holds the descriptor a call has appended, if it has appended one
FirstOf(known, appended) ==
    IF appended # <<>> /\ appended[1].name \notin DOMAIN known
    THEN known @@ (appended[1].name :> appended[1])
    ELSE known

\* the dispatcher d after register_method is called with the arguments c;
\* exc is the error that call raised
AfterCall(d, c) ==
    LET r == RegisterMethod(d.rpcmethods, d.methods, c.method, c.name,
                            c.signature, c.helpmsg)
    IN  [rpcmethods |-> r.rpcmethods,
         methods    |-> r.methods,
         firsts     |-> FirstOf(d.firsts,
                                IF r.dup THEN <<>> ELSE r.meth),
         exc        |-> r.exc]

\* the register_method calls of __init__, made one after the other on the
\* dispatcher d under construction: each call works on the dispatcher as the
\* one before has left it (next), and the first error raised ends them, no
\* try statement standing between register_method and the caller of
\* RPCDispatcher(...)
RECURSIVE RegisterAll(_, _)
RegisterAll(d, calls) ==
    IF calls = <<>> \/ d.exc # NoExc THEN d
    ELSE CHOOSE last \in {RegisterAll(next, Tail(calls)) :
                             next \in {AfterCall(d, calls[1])}} : TRUE

\* register_rpcmethods, lines 354-379: the register_method calls for the
\* attributes of an application, which dir() lists, that are callables
\* marked by the decorator
RegisterRpcmethods(apps) ==
    LET marked == SelectSeq(apps, LAMBDA m :
                      HasAttr(m, "is_rpcmethod") /\ m.attrs["is_rpcmethod"])
    IN  [i \in DOMAIN marked |->
            Registration(marked[i], Given(marked[i].attrs["external_name"]),
                         NotGiven, NotGiven)]

\* a variant of RPCDispatcherInit that scans the applications first
RPCDispatcherInitAppsFirst(url, apps, restrict_introspection, restrict_ootb_auth) ==
    LET Own(m) == Registration(m, NotGiven, NotGiven, NotGiven)
    IN  [url |-> url] @@ RegisterAll(
            [rpcmethods |-> <<>>, methods |-> <<>>, firsts |-> <<>>,
             exc |-> NoExc],
            RegisterRpcmethods(apps)
            \o (IF ~restrict_introspection
                THEN <<Own(system_listmethods), Own(system_methodhelp),
                       Own(system_methodsignature), Own(system_describe)>>
                ELSE <<>>)
            \o (IF ~restrict_ootb_auth
                THEN <<Own(system_login), Own(system_logout)>>
                ELSE <<>>))

\* RPCDispatcher.__init__, lines 224-241: the attributes of the dispatcher,
\* and in exc the error that left __init__, in which case there is no
\* dispatcher
RPCDispatcherInit(url, apps, restrict_introspection, restrict_ootb_auth) ==
    LET Own(m) == Registration(m, NotGiven, NotGiven, NotGiven)
    IN  [url |-> url] @@ RegisterAll(
            [rpcmethods |-> <<>>, methods |-> <<>>, firsts |-> <<>>,
             exc |-> NoExc],
            (IF ~restrict_introspection
             THEN <<Own(system_listmethods), Own(system_methodhelp),
                    Own(system_methodsignature), Own(system_describe)>>
             ELSE <<>>)
            \o (IF ~restrict_ootb_auth
                THEN <<Own(system_login), Own(system_logout)>>
                ELSE <<>>)
            \o RegisterRpcmethods(apps))

\* the callables the installed applications hold, in the order of dir()
InstalledApps == <<plain_add, rpc_add, rpc_listing, rpc_ping>>

\* ... and those of applications one of which holds a function marked by
\* hand: RPCMethod raises AttributeError (line 107) on it, out of
\* register_method, register_rpcmethods and __init__
MarkedApps == <<rpc_add, marked_echo, rpc_ping>>

\* a dispatcher as RPCDispatcher(url, apps, restrict_introspection,
\* restrict_ootb_auth, json_encoder) builds it; there is none when __init__
\* raises
Built(url, apps, restrict_introspection, restrict_ootb_auth) ==
    LET d == RPCDispatcherInit(url, apps, restrict_introspection,
                               restrict_ootb_auth)
    IN  /\ d.exc = NoExc
        /\ rpcmethods = d.rpcmethods
        /\ methods = d.methods
        /\ firsts = d.firsts
        /\ reg = NoReg
        /\ config = <<[url |-> d.url,
                       apps |-> apps,
                       restrict_introspection |-> restrict_introspection,
                       restrict_ootb_auth |-> restrict_ootb_auth]>>

\* the url views.py, lines 133-136, builds the dispatcher with: the path
\* serve_rpc_request is routed at; '' when it is routed nowhere
URL == "/RPC2/"

\* The dispatchers built: url, apps, restrict_introspection and
\* restrict_ootb_auth.  The restrictions are the defaults (views.py, lines
\* 32-33), introspection restricted, and, without applications and routed
\* nowhere, introspection restricted with system.login and system.logout.
\* The dispatcher of MarkedApps is never built: its __init__ raises.
Dispatchers ==
    {<<URL, InstalledApps, FALSE, TRUE>>,
     <<URL, InstalledApps, TRUE, TRUE>>,
     <<"", <<>>, TRUE, FALSE>>,
     <<URL, MarkedApps, TRUE, TRUE>>}

InitDispatcher ==
    /\ \E d \in Dispatchers : Built(d[1], d[2], d[3], d[4])
    /\ json_encoder = "DjangoJSONEncoder"
    /\ Fresh
    /\ NoView
    /\ waiting = FreshLocals

\* RPCDispatcher.register_method.  The calls are made one after the other,
\* by the thread that sets the dispatcher up; no lock is held, so the dispatch
\* calls of other threads run between its lines and see what each line has
\* left.
\*
\* Lines 425-427: the descriptor is built, which may raise, and its name is
\* looked for among the names listed
register_method(method, name, signature, helpmsg) ==
    /\ reg.line = 0
    /\ reg.n < MaxCalls
    /\ \E meth \in {RPCMethod(method, name, signature, helpmsg)} :
          reg' = [n    |-> reg.n + 1,
                  call |-> <<Registration(method, name, signature,
                                          helpmsg)>>,
                  exc  |-> meth.exc,
                  meth |-> IF meth.exc = NoExc THEN <<meth>> ELSE <<>>,
                  dup  |-> meth.exc = NoExc /\ Listed(rpcmethods, meth.name),
                  line |-> IF meth.exc = NoExc
                              /\ ~Listed(rpcmethods, meth.name)
                           THEN 428 ELSE 0]
    /\ UNCHANGED <<rpcmethods, methods, firsts, config, json_encoder, locals,
                   view, waiting>>

\* line 428: the callable is handed to the JSONRPCDispatcher
register_method_428 ==
    /\ reg.line = 428
    /\ methods' = RegisterFunction(methods, reg.call[1].method,
                                   reg.meth[1].name)
    /\ reg' = [reg EXCEPT !.line = 429]
    /\ UNCHANGED <<rpcmethods, firsts, config, json_encoder, locals, view,
                   waiting>>

\* line 429: the descriptor is appended, and the call returns
register_method_429 ==
    /\ reg.line = 429
    /\ rpcmethods' = Append(rpcmethods, reg.meth[1])
    /\ firsts' = FirstOf(firsts, reg.meth)
    /\ reg' = [reg EXCEPT !.line = 0]
    /\ UNCHANGED <<methods, config, json_encoder, locals, view, waiting>>

\* requests for the methods of a dispatcher, the introspection methods among
\* them
MethodCalls ==
    {<<"system.listMethods", <<>>>>,
     <<"system.listMethods", <<Num(2)>>>>,
     <<"system.describe", <<>>>>,
     <<"system.methodHelp", <<Str("add")>>>>,
     <<"system.methodHelp", <<Str("nope")>>>>,
     <<"system.methodHelp", <<Dict(<<<<"id", Num(1)>>,
                                     <<"method", Num(2)>>>>)>>>>,
     <<"system.methodHelp", <<Dict(<<<<"method", Num(2)>>,
                                     <<"id", Num(1)>>>>)>>>>,
     <<"system.methodSignature", <<Str("add")>>>>,
     <<"system.methodSignature", <<Str("math.add")>>>>,
     <<"system.methodSignature", <<Str("echo")>>>>,
     <<"system.logout", <<>>>>,
     <<"system.login", <<Str("alice"), Str("wonder")>>>>,
     <<"add", <<Num(2), Num(3)>>>>,
     <<"add", <<Str("a"), Num(2)>>>>,
     <<"whoami", <<Num(2)>>>>}

MethodCallBodies ==
    {BodyJson(Request(Str("y"), Str(c[1]), List(c[2]))) : c \in MethodCalls}

\* the calls made of a dispatcher: each request without keyword arguments and
\* with the caller's request object; request=None, which only system.login
\* and system.logout test for, with the requests for those two
DispatcherCalls ==
    {c \in MethodCallBodies
            \X {NoKwargs, Kwargs(<<<<"request", RequestObject>>>>),
                Kwargs(<<<<"request", None>>>>)} :
        c[2] = Kwargs(<<<<"request", None>>>>) =>
            DictGet(c[1].v, "method", None).s \in {"system.login",
                                                   "system.logout"}}

\* the life of an RPCDispatcher
NextDispatcher ==
    \/ \E c \in Registrations :
          register_method(c.method, c.name, c.signature, c.helpmsg)
    \/ register_method_428
    \/ register_method_429
    \/ /\ pc = "idle"
       /\ \E c \in DispatcherCalls : Start(c[1], c[2])
    \/ Step
    \/ Return

SpecDispatcher == InitDispatcher /\ [][NextDispatcher]_vars

-----------------------------------------------------------------------------
(* The hooks of auth.py *)

\* user.is_authenticated()
IsAuthenticated(user) == user \in Accounts

\* an HTTP_AUTHORIZATION header: the number of words split() finds, the
\* first word in lower case, whether the second word is base64 text that
\* base64.b64decode accepts (it is padded as it must be), and the parts of
\* the decoded second word that split(':') finds
Header(words, scheme, padded, credentials) ==
    [words |-> words, scheme |-> scheme, padded |-> padded,
     credentials |-> credentials]

\* what a hook did: the error it raised, and the request it leaves
Passed(req)    == [exc |-> NoExc, request |-> req]
Failed(e, req) == [exc |-> e, request |-> req]

AuthException(text) == Exc("AuthException", Str(text))

\* basic_http_auth, lines 11-33
basic_http_auth(req) ==
    IF req.user # <<>> /\ IsAuthenticated(req.user[1]) THEN Passed(req)
    ELSE IF req.authorization = <<>>
    THEN Failed(AuthException("Authentication required"), req)
    ELSE LET auth == req.authorization[1]
             users == Authenticate(Str(auth.credentials[1]),
                                   Str(auth.credentials[2]))
         IN  IF auth.words # 2
             THEN Failed(AuthException("Wrong HTTP_AUTHORIZATION header"),
                         req)
             ELSE IF auth.scheme # "basic"
             THEN Failed(AuthException("We support only basic http auth"),
                         req)
             ELSE IF ~auth.padded
             THEN Failed(Exc("TypeError", Str("Incorrect padding")), req)
             ELSE IF Len(auth.credentials) > 2
             THEN Failed(Exc("ValueError",
                             Str("too many values to unpack")), req)
             ELSE IF Len(auth.credentials) < 2
             THEN Failed(Exc("ValueError",
                             Str("need more than 1 value to unpack")), req)
             ELSE IF users = {}
             THEN Failed(AuthException("Wrong user."), req)
             ELSE IF \E u \in users : ~u.is_active
             THEN Failed(AuthException("Wrong user."), req)
             ELSE Passed([login(req, CHOOSE u \in users : TRUE) EXCEPT
                             !.user = <<CHOOSE u \in users : TRUE>>])

\* staff_required, lines 36-41
staff_required(req) ==
    IF req.user = <<>>
    THEN Failed(AuthException("User not authenticated"), req)
    ELSE IF ~(req.user[1].is_staff \/ req.user[1].is_superuser)
    THEN Failed(AuthException("User does not have permissions"), req)
    ELSE Passed(req)

\* functools.wraps(wrapped): the object partial(update_wrapper,
\* wrapped=wrapped), named here by the function it holds
wraps(wrapped) == "partial(update_wrapper, wrapped=" \o wrapped \o ")"

\* functools.update_wrapper(wrapper, wrapped): the name, the module and the
\* docstring of wrapped are assigned to wrapper, which is returned
update_wrapper(wrapper, wrapped) == [wrapper EXCEPT !.assigned = <<wrapped>>]

\* permissions_required, lines 44-52.  Line 45 applies wraps to the function
\* foo of lines 46-51 itself, so that what line 52 returns is wraps(foo):
\* an object that, called with a request, calls update_wrapper(request,
\* wrapped=foo) and never foo; permissions is read by foo alone
permissions_required(permissions) == wraps("foo")

\* hook(request) for the hooks a method names
CallHook(hook, req) ==
    CASE hook = "basic_http_auth" -> basic_http_auth(req)
      [] hook = "staff_required"  -> staff_required(req)
      [] hook = wraps("foo")      -> Passed(update_wrapper(req, "foo"))

-----------------------------------------------------------------------------
(* serve_rpc_request (views.py, lines 47-126) and                          *)
(* RPCDispatcher.check_request_permission                                  *)

\* RPCDispatcher.get_method_name, lines 382-395: the method named, None, or
\* the TypeError json.loads raises when it is not given text
get_method_name(raw_post_data) ==
    IF raw_post_data.k = "None"
    THEN [exc |-> Exc("TypeError", Str("expected string or buffer")),
          name |-> None]
    ELSE LET r == JsonLoads(raw_post_data)
         IN  IF ~r.ok THEN [exc |-> NoExc, name |-> None]
             ELSE IF r.value.t # "dict" \/ "method" \notin DOMAIN r.value.d
             THEN [exc |-> NoExc, name |-> None]
             ELSE [exc |-> NoExc, name |-> r.value.d["method"]]

\* what check_request_permission did: the error it let through, the request
\* as the hooks leave it, and the hooks it called
Checked(e, req, called) == [exc |-> e, request |-> req, trace |-> called]

\* a variant of check_request_permission that calls the authorization hook
\* first
check_request_permission_reversed(rpcms, req) ==
    LET named == get_method_name(req.raw_post_data)
        found == Lookup(rpcms, named.name)
    IN  IF named.exc # NoExc THEN Checked(named.exc, req, <<>>)
        ELSE IF found = <<>> THEN Checked(NoExc, req, <<>>)
        ELSE LET method == found[1]
                 a == IF method.authorization # NoHook
                      THEN CallHook(method.authorization, req)
                      ELSE Passed(req)
                 b == IF method.authentication # NoHook
                      THEN CallHook(method.authentication, a.request)
                      ELSE Passed(a.request)
                 ta == IF method.authorization # NoHook
                       THEN <<"authorization">> ELSE <<>>
                 tb == IF method.authentication # NoHook
                       THEN <<"authentication">> ELSE <<>>
             IN  IF a.exc # NoExc THEN Checked(a.exc, a.request, ta)
                 ELSE Checked(b.exc, b.request, ta \o tb)

\* RPCDispatcher.check_request_permission, lines 244-268
check_request_permission(rpcms, req) ==
    LET named == get_method_name(req.raw_post_data)
        found == Lookup(rpcms, named.name)
    IN  IF named.exc # NoExc THEN Checked(named.exc, req, <<>>)
        ELSE IF found = <<>> THEN Checked(NoExc, req, <<>>)
        ELSE LET method == found[1]
                 a == IF method.authentication # NoHook
                      THEN CallHook(method.authentication, req)
                      ELSE Passed(req)
                 b == IF method.authorization # NoHook
                      THEN CallHook(method.authorization, a.request)
                      ELSE Passed(a.request)
                 ta == IF method.authentication # NoHook
                       THEN <<"authentication">> ELSE <<>>
                 tb == IF method.authorization # NoHook
                       THEN <<"authorization">> ELSE <<>>
             IN  IF a.exc # NoExc THEN Checked(a.exc, a.request, ta)
                 ELSE Checked(b.exc, b.request, ta \o tb)

\* the CONTENT_TYPE values requests come with: none, and texts that hold
\* 'application/json' at their start, further on, or nowhere
ContentTypes ==
    {None, Str("application/json"),
     Str("application/json; charset=UTF-8"),
     Str("text/x-application/json-like"), Str("text/plain")}

\* needle in text, on str
Contains(needle, text) ==
    \E i \in 1..(Len(text) - Len(needle) + 1) :
        SubSeq(text, i, i + Len(needle) - 1) = needle

\* lines 66-72: what the test of the content type raises
CheckContentType(content_type) ==
    LET response_type == "application/json"
    IN  IF content_type = None
        THEN Exc("TypeError",
                 Str("argument of type 'NoneType' is not iterable"))
        ELSE IF ~Contains(response_type, content_type.s)
        THEN BadDataException("Use " \o response_type \o " content type")
        ELSE NoExc

\* the attributes of a JSONRPCDispatcher instance (jsonrpcdispatcher.py,
\* lines 24-138): those the class statement and __init__ define, and those
\* every instance of a class without a base has
JSONRPCDispatcherAttributes ==
    {"JSON_INDENT", "__init__", "register_function", "_encode_result",
     "dispatch", "json_encoder", "methods"}
    \cup {"__class__", "__dict__", "__doc__", "__module__"}

\* protocol.<name>: the AttributeError of an attribute that is not there
GetMember(name) ==
    IF name \in JSONRPCDispatcherAttributes THEN NoExc
    ELSE Exc("AttributeError", Str(
             "JSONRPCDispatcher instance has no attribute '" \o name \o "'"))

\* what serve_rpc_request has done so far: the exception its except clauses
\* caught, and the response it returned or the exception that left it
Http(kind, caught, e, content_type, content) ==
    [kind |-> kind, caught |-> caught, exc |-> e,
     content_type |-> content_type, content |-> content]
NoHttp == Http("", NoExc, NoExc, "", None)

\* HttpResponse(content, content_type)
HttpResponse(content, content_type) ==
    Http("response", NoExc, NoExc, content_type, content)

\* the methods of the applications the view serves
rpc_whoami ==
    rpcmethod([name |-> "whoami", authentication |-> "basic_http_auth",
               authorization |-> "staff_required"],
              handler_function("app.whoami"))
rpc_status ==
    rpcmethod([name |-> "status", authentication |-> "basic_http_auth"],
              handler_function("app.status"))
rpc_group ==
    rpcmethod([name |-> "echo", permission |-> Str("add_group")],
              echo_function("app.group"))
rpc_grant ==
    rpcmethod([name |-> "grant",
               authorization |-> permissions_required(Str("add_group"))],
              handler_function("app.grant"))
ServedApps ==
    <<rpc_add, rpc_grant, rpc_group, rpc_ping, rpc_status, rpc_whoami>>

\* the module's dispatcher, lines 152-153, with the default settings
InitView ==
    /\ Built(URL, ServedApps, FALSE, TRUE)
    /\ json_encoder = "DjangoJSONEncoder"
    /\ Fresh
    /\ NoView
    /\ waiting = FreshLocals

\* the requests
Users == {<<>>, <<AnonymousUser>>}
         \cup {<<u>> : u \in {a \in Accounts : a.is_active}}
Headers ==
    {<<>>,
     <<Header(2, "digest", TRUE, <<"alice", "wonder">>)>>,
     <<Header(2, "basic", TRUE, <<"alice", "wonder">>)>>,
     <<Header(2, "basic", TRUE, <<"root", "toor">>)>>,
     <<Header(2, "basic", TRUE, <<"bob", "builder">>)>>,
     <<Header(2, "basic", TRUE, <<"alice", "won", "der">>)>>,
     <<Header(2, "basic", FALSE, <<>>)>>}
PostedCalls ==
    {<<"whoami", <<>>>>, <<"status", <<>>>>, <<"Ping", <<>>>>,
     <<"echo", <<Num(2)>>>>, <<"add", <<Num(2), Num(3)>>>>,
     <<"grant", <<>>>>, <<"nope", <<>>>>}
PostedBodies ==
    {BodyEmpty, BodyGarbage}
    \cup {BodyJson(Request(Str("y"), Str(c[1]), List(c[2]))) :
             c \in PostedCalls}
HttpRequest(method, content_type, raw_post_data, user, authorization) ==
    [method |-> method, content_type |-> content_type,
     raw_post_data |-> raw_post_data, user |-> user,
     authorization |-> authorization, session |-> <<>>, assigned |-> <<>>]
Requests ==
    {HttpRequest("POST", c, b, u, h) :
        c \in ContentTypes, b \in PostedBodies, u \in Users, h \in Headers}
    \cup {HttpRequest(m, None, BodyEmpty, <<>>, <<>>) :
             m \in {"GET", "OPTIONS"}}

\* serve_rpc_request is called
Receive(req) ==
    /\ vpc = "idle" /\ pc = "idle"
    /\ request' = req
    /\ vpc' = "received"
    /\ UNCHANGED <<methods, json_encoder, locals, rpcdispatcher, http,
                   waiting>>

\* lines 90-126: a request that is no POST is answered without the
\* dispatcher
ServeOther ==
    /\ vpc = "received" /\ request.method # "POST"
    /\ http' = IF request.method = "OPTIONS"
               THEN HttpResponse(Str(""), "text/plain")
               ELSE HttpResponse(Str("rpc4django/rpcmethod_summary.html"),
                                 "text/html")
    /\ vpc' = "done"
    /\ UNCHANGED <<methods, json_encoder, locals, rpcdispatcher, request,
                   waiting>>

\* lines 71-72
ContentType ==
    /\ vpc = "received" /\ request.method = "POST"
    /\ LET e == CheckContentType(request.content_type)
       IN  IF e # NoExc
           THEN /\ vpc' = "raised"
                /\ http' = Http("", NoExc, e, "", None)
           ELSE /\ vpc' = "accepted"
                /\ UNCHANGED http
    /\ UNCHANGED <<methods, json_encoder, locals, rpcdispatcher, request,
                   waiting>>

\* line 74
CheckPermission ==
    /\ vpc = "accepted"
    /\ LET r == check_request_permission(rpcmethods, request)
       IN  /\ request' = r.request
           /\ trace' = trace \o r.trace
           /\ IF r.exc # NoExc
              THEN /\ vpc' = "raised"
                   /\ http' = Http("", NoExc, r.exc, "", None)
              ELSE /\ vpc' = "permitted"
                   /\ UNCHANGED http
    /\ UNCHANGED <<methods, json_encoder, pc, json_data, kwargs, api_call_id,
                   jsondict, result, exc, origin, invoked, executed, callee,
                   seen,
                   response, rpcdispatcher, waiting>>

\* line 75: dispatch is called with the body and request=request
Dispatch ==
    /\ vpc = "permitted"
    /\ Start(request.raw_post_data, Kwargs(<<<<"request", RequestObject>>>>))

\* lines 75 and 88: dispatch returns and the response is built, or what
\* left dispatch reaches the except clauses
Dispatched ==
    /\ vpc = "permitted"
    /\ pc \in {"encoded", "escaped"}
    /\ IF pc = "encoded"
       THEN /\ vpc' = "done"
            /\ http' = HttpResponse(response[1], "application/json")
       ELSE /\ vpc' = "raised"
            /\ http' = Http("", NoExc, exc, "", None)
    /\ pc' = "idle"
    /\ UNCHANGED <<methods, json_encoder, json_data, kwargs, api_call_id,
                   jsondict, result, exc, origin, invoked, executed, callee,
                   seen,
                   response, trace, rpcdispatcher, request, waiting>>

\* lines 77-86: either except clause asks the JSONRPCDispatcher for
\* encode_error; what that raises leaves serve_rpc_request
ViewExcept ==
    /\ vpc = "raised"
    /\ LET e == GetMember("encode_error")
       IN  /\ e # NoExc \/ ExceptClause(http.exc) = "uncaught"
           /\ http' = IF ExceptClause(http.exc) = "uncaught"
                      THEN Http("raised", NoExc, http.exc, "", None)
                      ELSE Http("raised", http.exc, e, "", None)
    /\ vpc' = "done"
    /\ UNCHANGED <<methods, json_encoder, locals, rpcdispatcher, request,
                   waiting>>

\* serve_rpc_request is over; the next request may come
Finish ==
    /\ vpc = "done"
    /\ vpc' = "idle"
    /\ request' = NoRequest
    /\ http' = NoHttp
    /\ pc' = "idle"
    /\ json_data' = BodyNone
    /\ kwargs' = NoKwargs
    /\ api_call_id' = Str("")
    /\ jsondict' = None
    /\ result' = None
    /\ exc' = NoExc
    /\ origin' = ""
    /\ invoked' = 0
    /\ executed' = 0
    /\ callee' = <<>>
    /\ seen' = <<>>
    /\ response' = <<>>
    /\ trace' = <<>>
    /\ UNCHANGED <<methods, json_encoder, rpcdispatcher, waiting>>

NextView ==
    \/ \E req \in Requests : Receive(req)
    \/ ServeOther
    \/ ContentType
    \/ CheckPermission
    \/ Dispatch
    \/ Step
    \/ Dispatched
    \/ ViewExcept
    \/ Finish

SpecView == InitView /\ [][NextView]_vars

-----------------------------------------------------------------------------
(* Several dispatch calls on one dispatcher.  Each thread has its own      *)
(* locals; the dispatcher's attributes are shared.  One thread runs at a   *)
(* time and the interpreter may switch to the other between any two steps. *)

\* dispatch(json_data, **kwargs), lines 81-138, as a function of the
\* dispatcher's attributes, its arguments and what the handler does: the
\* envelopes returned
dispatch(registry, encoder, body, kw, o) ==
    LET Caught(id, e) ==
            LET clause == ExceptClause(e)
                error == IF clause = "RpcException" THEN e
                         ELSE WrapUnknown(e)
                r == EncodeResult(encoder, id, None, error)
            IN  IF clause # "uncaught" /\ r.ok THEN <<r.text>> ELSE <<>>
        d == DecodeBody(body)
        v == ValidateRequest(d.jsondict)
        e == RouteRequest(registry, d.jsondict)
        c == Call(registry[DictGet(d.jsondict, "method", None).s],
                  DictGet(d.jsondict, "params", None).a, kw, o)
        r == EncodeResult(encoder, v.id, c.out.value, NoExc)
    IN  IF d.exc # NoExc THEN Caught(Str(""), d.exc)
        ELSE IF v.exc # NoExc THEN Caught(v.id, v.exc)
        ELSE IF e # NoExc THEN Caught(v.id, e)
        ELSE IF c.out.raised THEN Caught(v.id, c.out.exc)
        ELSE IF r.ok THEN <<r.text>>
        ELSE Caught(v.id, Exc(r.cls, Str("")))

\* the locals of the running thread
Running ==
    [pc |-> pc, json_data |-> json_data, kwargs |-> kwargs,
     api_call_id |-> api_call_id, jsondict |-> jsondict, result |-> result,
     exc |-> exc, origin |-> origin, invoked |-> invoked,
     executed |-> executed, callee |-> callee, seen |-> seen,
     response |-> response,
     trace |-> trace]

\* a variant of Switch in which api_call_id is an attribute of the
\* dispatcher, shared by the threads
SwitchSharingId ==
    /\ pc' = waiting.pc
    /\ json_data' = waiting.json_data
    /\ kwargs' = waiting.kwargs
    /\ jsondict' = waiting.jsondict
    /\ result' = waiting.result
    /\ exc' = waiting.exc
    /\ origin' = waiting.origin
    /\ invoked' = waiting.invoked
    /\ executed' = waiting.executed
    /\ callee' = waiting.callee
    /\ seen' = waiting.seen
    /\ response' = waiting.response
    /\ trace' = waiting.trace
    /\ waiting' = Running
    /\ UNCHANGED <<methods, json_encoder, api_call_id, rpcdispatcher, view>>

\* the interpreter switches threads: the running call is suspended with its
\* locals and the other one goes on with its own
Switch ==
    /\ pc' = waiting.pc
    /\ json_data' = waiting.json_data
    /\ kwargs' = waiting.kwargs
    /\ api_call_id' = waiting.api_call_id
    /\ jsondict' = waiting.jsondict
    /\ result' = waiting.result
    /\ exc' = waiting.exc
    /\ origin' = waiting.origin
    /\ invoked' = waiting.invoked
    /\ executed' = waiting.executed
    /\ callee' = waiting.callee
    /\ seen' = waiting.seen
    /\ response' = waiting.response
    /\ trace' = waiting.trace
    /\ waiting' = Running
    /\ UNCHANGED <<methods, json_encoder, rpcdispatcher, view>>

\* the requests the threads bring
ThreadBodies ==
    {BodyGarbage,
     BodyJson(Request(Str("y"), Str("add"), List(<<Num(2), Num(3)>>))),
     BodyJson(Request(Str("z"), Str("add"), List(<<Num(3), Num(3)>>))),
     BodyJson(Request(Str("z"), Str("f"), List(<<>>))),
     BodyJson(Request(Absent, Str("nope"), List(<<>>)))}

InitThreads ==
    /\ methods = ("add" :> add @@ "f" :> handler)
    /\ json_encoder \in Encoders
    /\ Fresh
    /\ NoRegistry
    /\ NoView
    /\ waiting = FreshLocals

NextThreads ==
    \/ pc = "idle" /\ \E b \in ThreadBodies, kw \in KwargsSets : Start(b, kw)
    \/ Step
    \/ Return
    \/ Switch

SpecThreads == InitThreads /\ [][NextThreads]_vars

-----------------------------------------------------------------------------
(* What the claims speak of *)

\* the request body is the text of a JSON object
RootIsObject == json_data.k = "json" /\ json_data.v.t = "dict"

\* member k of the request object
Has(k)    == RootIsObject /\ k \in DOMAIN json_data.v.d
Member(k) == json_data.v.d[k]

\* the id the request carries; the empty string when it carries none
RequestId == IF Has("id") THEN Member("id") ELSE Str("")

\* dispatch is over: it has returned, or an error has left it
Over == pc \in {"encoded", "escaped"}

\* The value v without the order in which its dicts got their keys: two
\* values are equal in Python, and two texts hold the same JSON value, when
\* they are equal up to that order.
RECURSIVE Plain(_)
Plain(v) ==
    CASE v.t \in {"list", "tuple"} ->
            V(v.t, 0, "", [i \in DOMAIN v.a |-> Plain(v.a[i])], <<>>)
      [] v.t = "dict" ->
            V("dict", 0, "", <<>>, [k \in DOMAIN v.d |-> Plain(v.d[k])])
      [] OTHER -> v

\* dispatch has returned env and nothing else
Answered(env) ==
    pc = "encoded" /\ Len(response) = 1 /\ Plain(response[1]) = Plain(env)

\* the success envelope
SuccessEnvelope(id, v) ==
    Dict(<<<<"id", id>>, <<"result", v>>, <<"error", None>>>>)

\* the error envelope
ErrorEnvelope(id, cls, code, message) ==
    Dict(<<<<"id", id>>, <<"result", None>>,
           <<"error", Dict(<<<<"name", Str("JSONRPCError")>>,
                             <<"exception", Str(cls)>>,
                             <<"code", Num(code)>>,
                             <<"message", message>>>>)>>>>)

\* env is an error envelope of class cls and code `code` that echoes id
IsError(env, id, cls, code) ==
    /\ env.t = "dict"
    /\ DOMAIN env.d = {"id", "result", "error"}
    /\ env.d["id"] = id
    /\ env.d["result"] = None
    /\ env.d["error"].t = "dict"
    /\ DOMAIN env.d["error"].d = {"name", "exception", "code", "message"}
    /\ env.d["error"].d["name"] = Str("JSONRPCError")
    /\ env.d["error"].d["exception"] = Str(cls)
    /\ env.d["error"].d["code"] = Num(code)

\* dispatch has returned one envelope, an error of class cls and code `code`
\* that echoes id
AnsweredError(id, cls, code) ==
    /\ pc = "encoded" /\ Len(response) = 1
    /\ IsError(response[1], id, cls, code)

\* v is a JSON value: null, a number, a string, or an array or object of
\* JSON values
IsJsonValue(v) == Serializable(v, "None") /\ Plain(Written(v)) = Plain(v)

\* the request is well formed and names a method that was registered when
\* line 126 looked for it
WellFormed ==
    /\ Has("method") /\ Has("params")
    /\ Member("method").t = "unicode"
    /\ Member("params").t = "list"
    /\ callee # <<>>

\* the callable line 129 read from the registry and called
Handler == callee[1]

\* the call was made, the handler's body ran and returned
HandlerReturned == invoked = 1 /\ executed = 1 /\ origin \in {"", "encode"}

\* the call was made, the handler's body ran and raised exc
HandlerRaised == invoked = 1 /\ executed = 1 /\ origin = "handler"

-----------------------------------------------------------------------------
(* C1: a well-formed request naming a registered handler that accepts the  *)
(* params and returns the JSON value v is answered with the envelope       *)
(* {id: the request's id, result: v, error: null}.                         *)
C1_SuccessEnvelope ==
    (Over /\ WellFormed /\ HandlerReturned /\ IsJsonValue(result))
    => Answered(SuccessEnvelope(RequestId, result))

\* add registered as a + b, called with [2, 3] and id "y", answers 5
C1_Witness ==
    /\ json_data = BodyJson(Request(Str("y"), Str("add"),
                                    List(<<Num(2), Num(3)>>)))
    /\ callee = <<add>>
    /\ Answered(SuccessEnvelope(Str("y"), Num(5)))

(* C2: an empty or absent body, a body that is not JSON, and a body whose  *)
(* JSON root is not an object are each answered with a BadDataException    *)
(* envelope, code 101, result null, id "", whatever is registered.         *)
C2_BadDataOnUndecodable ==
    (Over /\ ~RootIsObject)
    => AnsweredError(Str(""), "BadDataException", 101)

\* a JSON array is answered with BadData while two methods are registered
C2_Witness ==
    /\ json_data = BodyJson(List(<<>>))
    /\ Cardinality(DOMAIN methods) = 2
    /\ AnsweredError(Str(""), "BadDataException", 101)

(* C3: an object lacking 'method' or 'params' is answered with a BadData   *)
(* envelope (code 101) whose id is the object's id, or "" when it has      *)
(* none; a missing id alone is no failure.                                 *)
C3_BadDataOnMissingKeys ==
    /\ (Over /\ RootIsObject /\ (~Has("method") \/ ~Has("params")))
       => AnsweredError(RequestId, "BadDataException", 101)
    /\ (Over /\ WellFormed /\ ~Has("id") /\ HandlerReturned
           /\ IsJsonValue(result))
       => Answered(SuccessEnvelope(Str(""), result))

\* {"id": "y", "params": []} is answered with BadData and id "y"
C3_Witness ==
    /\ json_data = BodyJson(Request(Str("y"), Absent, List(<<>>)))
    /\ AnsweredError(Str("y"), "BadDataException", 101)

\* a second case of C3: a request without id succeeds, echoing ""
C3_WitnessNoId ==
    /\ json_data = BodyJson(Request(Absent, Str("add"),
                                    List(<<Num(2), Num(3)>>)))
    /\ Answered(SuccessEnvelope(Str(""), Num(5)))

(* C4: a request object whose 'method' or 'params' member is missing is    *)
(* answered with the BadMethod kind, code 102.                             *)
C4_BadMethodOnMissingKeys ==
    (Over /\ RootIsObject /\ (~Has("method") \/ ~Has("params")))
    => AnsweredError(RequestId, "BadMethodException", 102)

(* C5: with both members present, a 'method' that is no string, a 'params' *)
(* that is no array, and a 'method' that is not registered are each        *)
(* answered with a BadMethod envelope (code 102) echoing the request's id; *)
(* for the unregistered method the message holds the name asked for.       *)
C5_BadMethod ==
    (Over /\ Has("method") /\ Has("params") /\ ~WellFormed)
    => /\ AnsweredError(RequestId, "BadMethodException", 102)
       /\ (Member("method").t = "unicode" /\ Member("params").t = "list")
          => response[1].d["error"].d["message"] =
                Str("Called method " \o Member("method").s
                    \o " does not exist in this api, see system.listMethods")

\* {"id": "y", "method": "nope", "params": []} with "add" registered
C5_Witness ==
    /\ json_data = BodyJson(Request(Str("y"), Str("nope"), List(<<>>)))
    /\ "add" \in DOMAIN methods
    /\ Answered(ErrorEnvelope(Str("y"), "BadMethodException", 102,
          Str("Called method nope does not exist in this api, see system.listMethods")))

\* exc is of the taxonomy, and its message is text
TaxonomyError ==
    IsSubclass(exc.cls, "RpcException") /\ exc.message.t = "unicode"

(* C6: when the handler raises an error of the taxonomy, the envelope      *)
(* carries that error's class name, code and message unchanged             *)
(* (BadParamsException 201, ProcessingException 200, AuthException 403);   *)
(* when it raises any other error, that is, any other instance of         *)
(* Exception, the envelope carries UnknownProcessingError, 104 and         *)
(* "<class name>: <message>".  In both cases result is null and the        *)
(* request's id is echoed.                                                 *)
C6_HandlerErrors ==
    (Over /\ HandlerRaised)
    => /\ TaxonomyError
          => /\ Answered(ErrorEnvelope(RequestId, exc.cls, Code(exc.cls),
                                       exc.message))
             /\ exc.cls = "BadParamsException"
                => response[1].d["error"].d["code"] = Num(201)
             /\ exc.cls = "ProcessingException"
                => response[1].d["error"].d["code"] = Num(200)
             /\ exc.cls = "AuthException"
                => response[1].d["error"].d["code"] = Num(403)
       /\ (IsSubclass(exc.cls, "Exception")
           /\ ~IsSubclass(exc.cls, "RpcException"))
          => Answered(ErrorEnvelope(RequestId, "UnknownProcessingError", 104,
                         Str(exc.cls \o ": " \o PyStr(exc.message))))

\* a handler raises BadParamsException("bad value") on a request with id "y"
C6_Witness ==
    /\ HandlerRaised
    /\ exc = Exc("BadParamsException", Str("bad value"))
    /\ Answered(ErrorEnvelope(Str("y"), "BadParamsException", 201,
                              Str("bad value")))

\* a second case of C6: a handler raises KeyError(7)
C6_WitnessUnknown ==
    /\ HandlerRaised
    /\ exc = Exc("KeyError", Num(7))
    /\ Answered(ErrorEnvelope(Str("y"), "UnknownProcessingError", 104,
                              Str("KeyError: 7")))

\* the envelope that replaces one that cannot be encoded
DegradedEnvelope(id) ==
    ErrorEnvelope(id, "RpcException", 100,
                  Str("Failed to encode return value"))

\* the envelope dispatch first builds cannot be encoded: the handler's
\* result, or the message of the error raised, is not serializable
EncodingFails ==
    \/ HandlerReturned /\ ~Serializable(result, json_encoder)
    \/ origin \notin {"", "encode"}
         /\ IsSubclass(exc.cls, "RpcException")
         /\ ~Serializable(exc.message, json_encoder)

(* C7: if encoding the response envelope fails, dispatch returns the fixed *)
(* envelope {id, result: null, error: {name: JSONRPCError, exception:      *)
(* RpcException, code: 100, message: 'Failed to encode return value'}},    *)
(* and producing it never fails.                                           *)
C7_DegradedEnvelope ==
    /\ origin # "encode"
    /\ (Over /\ EncodingFails) => Answered(DegradedEnvelope(RequestId))

\* a handler returns a date under json's own encoder, on a request with id "y"
C7_Witness ==
    /\ HandlerReturned /\ result = Date(2012, 1, 31)
    /\ json_encoder = "None"
    /\ Answered(DegradedEnvelope(Str("y")))

\* a second case of C7: the message of a taxonomy error is not serializable
C7_WitnessMessage ==
    /\ HandlerRaised /\ exc = Exc("BadParamsException", PyObject)
    /\ Answered(DegradedEnvelope(Str("y")))

(* C8 as claimed: in every envelope dispatch returns, exactly one of       *)
(* 'result' and 'error' is not null.                                       *)
C8_ExactlyOne ==
    pc = "encoded"
    => \A i \in DOMAIN response :
          (response[i].d["result"] # None) # (response[i].d["error"] # None)

(* C8 as amended: in every envelope dispatch returns, 'error' is not null  *)
(* exactly when the call did not succeed, 'result' is null whenever        *)
(* 'error' is not, and both are null only when the handler returned None.  *)
C8_AtMostOne ==
    pc = "encoded"
    => \A i \in DOMAIN response :
          LET res == response[i].d["result"]
              err == response[i].d["error"]
              succeeded == HandlerReturned
                           /\ Serializable(result, json_encoder)
          IN  /\ (err # None) <=> ~succeeded
              /\ err # None => res = None
              /\ (res = None /\ err = None) <=> (succeeded /\ result = None)

\* a handler returns None: both members are null
C8_Witness ==
    /\ HandlerReturned /\ result = None
    /\ Answered(SuccessEnvelope(Str("y"), None))

(* C9: every dispatch call reaches Encoded and returns exactly one         *)
(* envelope: whatever fails while decoding, validating, routing, invoking  *)
(* or encoding ends in an encoded error envelope, no error leaves dispatch *)
(* uncaught, and no call ends without a response.                          *)
C9_AlwaysAnswers ==
    /\ [](pc # "escaped")
    /\ [](Len(response) = IF pc = "encoded" THEN 1 ELSE 0)
    /\ (pc \in {"started", "decoded", "validated", "routed", "invoked",
                "raised"}) ~> (pc = "encoded")

\* a handler has raised SystemExit, which neither except clause catches:
\* it has left dispatch, and there is no envelope
C9_Witness ==
    /\ pc = "escaped" /\ response = <<>>
    /\ HandlerRaised /\ exc = Exc("SystemExit", Str(""))

\* what does hold: only what a handler raises that is no instance of
\* Exception leaves dispatch, and every other call is answered with one
\* envelope
C9_ErrorsAnswered ==
    /\ [](pc = "escaped"
          => HandlerRaised /\ ~IsSubclass(exc.cls, "Exception"))
    /\ [](Len(response) = IF pc = "encoded" THEN 1 ELSE 0)
    /\ (pc \in {"started", "decoded", "validated", "routed", "invoked",
                "raised"}) ~> (pc \in {"encoded", "escaped"})

\* a call whose handler raised outside the taxonomy has been answered
C9_WitnessAnswered ==
    /\ pc = "encoded" /\ Len(response) = 1
    /\ HandlerRaised /\ exc.cls = "ValueError"

(* C10: within one dispatch call a handler is invoked at most once, and    *)
(* only after every decode and validation check has passed; a call         *)
(* answered with the BadData or BadMethod that decoding or validation      *)
(* raised has invoked no handler.                                          *)
C10_InvokeAfterChecks ==
    /\ invoked <= 1 /\ executed <= invoked
    /\ invoked = 1 => WellFormed
    /\ origin \in {"decode", "validate", "route"}
       => /\ invoked = 0 /\ executed = 0
          /\ exc.cls \in {"BadDataException", "BadMethodException"}

\* an unregistered method has been answered with BadMethod, nothing invoked
C10_Witness ==
    /\ origin = "route" /\ invoked = 0
    /\ AnsweredError(RequestId, "BadMethodException", 102)
    /\ methods # <<>>

\* a second case of C10: a handler has been invoked, once
C10_WitnessInvoked == pc = "encoded" /\ invoked = 1 /\ executed = 1

-----------------------------------------------------------------------------
(* What the claims about the RPCDispatcher speak of *)

\* the method and the params of a well-formed request
CallOf(name) == WellFormed /\ Member("method") = Str(name)
Param(i) == Member("params").a[i]

\* the descriptors registered under name
Registered(name) ==
    {i \in DOMAIN rpcmethods : rpcmethods[i].name = name}

\* the last register_method call built a descriptor
Built_ == reg.meth # <<>>
LastCall == reg.call[1]
LastMeth == reg.meth[1]

\* a register_method call is under way: it has passed line 427 and has not
\* returned
Registering == reg.line # 0

\* the name the last register_method call registers its callable under was
\* registered when the call was made: line 427 found it so, or, for a call
\* that raised before it had a descriptor, the name lines 112-117 give is
\* among the names listed, which the call has left as they were
AlreadyRegistered ==
    IF Built_ THEN reg.dup
    ELSE /\ reg.n > 0
         /\ Listed(rpcmethods, MethodName(LastCall.method, LastCall.name))

-----------------------------------------------------------------------------
(* C11: a register_method call for a name that is registered already      *)
(* raises nothing and changes nothing: for every name, the descriptor      *)
(* found by name, the entry of system.listMethods and the callable         *)
(* dispatch calls are those of the first registration.                     *)
C11_FirstRegistrationWins ==
    /\ AlreadyRegistered => reg.exc = NoExc
    /\ LET listed == SystemListMethods(rpcmethods).value.a
       IN  \A n \in DOMAIN firsts :
              /\ Lookup(rpcmethods, Str(n)) = <<firsts[n]>>
              /\ Cardinality(Registered(n)) = 1
              /\ Cardinality({i \in DOMAIN listed : listed[i] = Str(n)}) = 1
              /\ n \in DOMAIN methods
              /\ methods[n] = firsts[n].method

\* add, a function no decorator has touched, is registered under the name
\* add, which is registered: RPCMethod.__init__ raises AttributeError at line
\* 107, and the first registration stands
C11_Witness ==
    /\ AlreadyRegistered
    /\ LastCall = Registration(plain_add, Given("add"), NotGiven, NotGiven)
    /\ reg.exc = Exc("AttributeError", Str(
                     "'function' object has no attribute 'authentication'"))
    /\ Cardinality(Registered("add")) = 1
    /\ methods["add"] = firsts["add"].method

\* What holds: a call that builds its descriptor, the callable bearing the
\* attributes authentication and authorization, raises nothing, and under a
\* registered name changes nothing.
C11_FirstRegistrationKept ==
    /\ Built_ => reg.exc = NoExc
    /\ (Built_ /\ reg.dup) => ~Registering
    /\ LET listed == SystemListMethods(rpcmethods).value.a
       IN  \A n \in DOMAIN firsts :
              /\ Lookup(rpcmethods, Str(n)) = <<firsts[n]>>
              /\ Cardinality(Registered(n)) = 1
              /\ Cardinality({i \in DOMAIN listed : listed[i] = Str(n)}) = 1
              /\ n \in DOMAIN methods
              /\ methods[n] = firsts[n].method

\* echo, decorated with the name add, is registered after add: the registry
\* still holds add
C11_WitnessKept ==
    /\ reg.dup /\ Built_
    /\ LastMeth.name = "add"
    /\ LastMeth.method = rpc_echo_add
    /\ methods["add"] = rpc_add
    /\ reg.exc = NoExc

-----------------------------------------------------------------------------
(* C12: the dispatcher's system.listMethods answers with the external      *)
(* names registered when it is called, each once, in ascending order of    *)
(* str.                                                                    *)
C12_ListMethodsSorted ==
    (/\ Over /\ CallOf("system.listMethods") /\ executed = 1
     /\ Handler = system_listmethods)
    => /\ Answered(SuccessEnvelope(RequestId, result))
       /\ result.t = "list"
       /\ {result.a[i] : i \in DOMAIN result.a}
             = {Str(seen[i].name) : i \in DOMAIN seen}
       /\ Len(result.a) = Len(seen)
       /\ \A i, j \in DOMAIN result.a :
             i < j => Less(result.a[i].s, result.a[j].s)

\* Ping and add were registered after the dispatcher's own methods and are
\* listed before them
C12_Witness ==
    /\ Over /\ CallOf("system.listMethods") /\ executed = 1
    /\ Len(result.a) >= 6
    /\ result.a[1] = Str("Ping") /\ result.a[2] = Str("add")
    /\ seen[1].name = "system.listMethods"

\* a second case of C12: a method was registered after the call listed the
\* names and before it returned, and is not in the list
C12_WitnessLate ==
    /\ Over /\ CallOf("system.listMethods") /\ executed = 1
    /\ Handler = system_listmethods
    /\ Len(rpcmethods) = Len(seen) + 1
    /\ Len(result.a) = Len(seen)

-----------------------------------------------------------------------------
(* C13: system.methodHelp(name) and system.methodSignature(name) answer    *)
(* with the help and the signature of the descriptor registered under      *)
(* name; when there is none they are answered with the error envelope of   *)
(* BadMethodException, code 102, that echoes the id.                       *)
C13_HelpAndSignature ==
    /\ (Over /\ CallOf("system.methodHelp") /\ executed = 1)
       => LET found == Lookup(seen, Param(1))
          IN  IF found # <<>>
              THEN Answered(SuccessEnvelope(RequestId, Str(found[1].help)))
              ELSE AnsweredError(RequestId, "BadMethodException",
                                 BadMethodExceptionCode)
    /\ (Over /\ CallOf("system.methodSignature") /\ executed = 1)
       => LET found == Lookup(seen, Param(1))
          IN  IF found # <<>>
              THEN Answered(SuccessEnvelope(RequestId,
                       List([i \in DOMAIN found[1].signature |->
                                Str(found[1].signature[i])])))
              ELSE AnsweredError(RequestId, "BadMethodException",
                                 BadMethodExceptionCode)

\* the help of add
C13_Witness ==
    /\ CallOf("system.methodHelp") /\ Param(1) = Str("add")
    /\ Answered(SuccessEnvelope(Str("y"), Str("Adds two numbers")))

\* the signature of a name that is not registered
C13_WitnessUnregistered ==
    /\ CallOf("system.methodSignature") /\ Param(1) = Str("math.add")
    /\ Registered("math.add") = {}
    /\ AnsweredError(Str("y"), "BadMethodException", BadMethodExceptionCode)
    /\ response[1].d["error"].d["message"]
          = Str("Method math.add not registered here")

\* the help of a name that is no text but an object: the message holds the
\* object as repr writes it, with its keys in the order the dict iterates
\* them; "id" and "method" go for the same slot of the hash table, so the
\* one the request's text has first comes first
C13_WitnessKeyOrder ==
    /\ CallOf("system.methodHelp")
    /\ Param(1) = Dict(<<<<"id", Num(1)>>, <<"method", Num(2)>>>>)
    /\ AnsweredError(Str("y"), "BadMethodException", BadMethodExceptionCode)
    /\ response[1].d["error"].d["message"]
          = Str("Method {u'id': 1, u'method': 2} not registered here")

\* the same object with its members in the other order
C13_WitnessKeyOrderOther ==
    /\ CallOf("system.methodHelp")
    /\ Param(1) = Dict(<<<<"method", Num(2)>>, <<"id", Num(1)>>>>)
    /\ AnsweredError(Str("y"), "BadMethodException", BadMethodExceptionCode)
    /\ response[1].d["error"].d["message"]
          = Str("Method {u'method': 2, u'id': 1} not registered here")

-----------------------------------------------------------------------------
(* C14: every descriptor has one signature entry more than it has params.  *)
(* The signature is the attached one when that has the right length, else  *)
(* the passed one when that has the right length, else 'object'            *)
(* throughout; a signature of the wrong length raises nothing.             *)
C14_SignatureLength ==
    /\ \A i \in DOMAIN rpcmethods :
          Len(rpcmethods[i].signature) = Len(get_params(rpcmethods[i]).a) + 1
    /\ Built_ =>
          LET n == Len(get_params(LastMeth).a)
              attached == GetAttr(LastCall.method, "signature", <<>>)
              passed == IF LastCall.signature # NotGiven
                        THEN LastCall.signature[1] ELSE <<>>
          IN  /\ reg.exc = NoExc
              /\ n = Len(LastMeth.args)
              /\ Len(LastMeth.signature) = n + 1
              /\ LastMeth.signature =
                    IF Len(attached) = n + 1 THEN attached
                    ELSE IF Len(passed) = n + 1 THEN passed
                    ELSE [k \in 1..(n + 1) |-> "object"]

\* both signatures have the right length: the attached one is kept
C14_Witness ==
    /\ Built_
    /\ LastCall.method = rpc_math_add
    /\ LastCall.signature = Given(<<"object", "int", "int">>)
    /\ LastMeth.signature = <<"int", "int", "int">>

\* the attached signature is too long and none is passed
C14_WitnessDiscarded ==
    /\ Built_
    /\ LastCall.method = rpc_echo /\ LastCall.signature = NotGiven
    /\ LastMeth.signature = <<"object", "object">>

\* no signature is attached and the passed one has the right length
C14_WitnessPassed ==
    /\ Built_
    /\ LastCall.method = hooked_echo
    /\ LastMeth.signature = <<"string", "string">>

\* the attached signature is empty and the passed one is too long
C14_WitnessTooLong ==
    /\ Built_
    /\ LastCall.method = rpc_listing
    /\ LastCall.signature = Given(<<"string", "string", "string">>)
    /\ LastMeth.signature = <<"object", "object">>

-----------------------------------------------------------------------------
(* C15: a descriptor built with an explicit name bears that name, whatever *)
(* name is attached to the callable.                                       *)
C15_ExplicitNameFirst ==
    (Built_ /\ LastCall.name # NotGiven) => LastMeth.name = LastCall.name[1]

-----------------------------------------------------------------------------
(* What the claims about serve_rpc_request speak of *)

\* the descriptor of the method the posted body names, if there is one
Named == Lookup(rpcmethods, get_method_name(request.raw_post_data).name)

\* the events of trace
Called(event) == \E i \in DOMAIN trace : trace[i] = event

\* every a in trace comes before every b
Before(a, b) ==
    \A i, j \in DOMAIN trace : (trace[i] = a /\ trace[j] = b) => i < j

\* the user of the request is logged in / holds permission
LoggedIn == request.user # <<>> /\ IsAuthenticated(request.user[1])
Holds(permission) == LoggedIn /\ permission.s \in request.user[1].perms

\* a hook has refused the request with AuthException
Refused ==
    \/ vpc = "raised" /\ http.exc.cls = "AuthException"
    \/ vpc = "done" /\ http.caught.cls = "AuthException"

-----------------------------------------------------------------------------
(* C16: while serve_rpc_request serves a request, the handler of a method  *)
(* registered with login_required is called only for a logged-in user, and *)
(* that of a method registered with a permission only for a user who holds *)
(* it.                                                                     *)
C16_LoginAndPermissionEnforced ==
    (Called("handler") /\ Named # <<>>)
    => /\ Named[1].login_required => LoggedIn
       /\ Named[1].permission # None => Holds(Named[1].permission)

-----------------------------------------------------------------------------
(* C17: for a POST that names a registered method, the authentication hook *)
(* is called before the authorization hook and both before the handler; a  *)
(* handler is called only after the hooks its method has; once a hook has  *)
(* refused the request with AuthException the handler is not called.       *)
C17_HooksBeforeHandler ==
    /\ Before("authentication", "authorization")
    /\ Before("authentication", "handler")
    /\ Before("authorization", "handler")
    /\ (Called("handler") /\ Named # <<>>)
       => /\ Named[1].authentication # NoHook => Called("authentication")
          /\ Named[1].authorization # NoHook => Called("authorization")
    /\ Refused => ~Called("handler") /\ invoked = 0

\* both hooks pass (the header logs root in) and the handler is called
C17_Witness ==
    /\ request.method = "POST"
    /\ trace = <<"authentication", "authorization", "handler">>
    /\ request.authorization # <<>>
    /\ vpc = "done" /\ http.kind = "response"

\* the authorization hook refuses alice, who is not of the staff; the
\* request is over and the handler was not called
C17_WitnessRefused ==
    /\ vpc = "done" /\ Refused
    /\ trace = <<"authentication", "authorization">>
    /\ request.user = <<Account("alice", "wonder", TRUE, FALSE, FALSE, {})>>
    /\ Named # <<>> /\ Named[1].name = "whoami"

-----------------------------------------------------------------------------
(* C20: a POST for which a taxonomy error is raised before dispatch (by a  *)
(* hook, or for its content type) is answered with the error envelope that *)
(* carries that error's code.                                              *)
C20_ErrorEnvelopeBeforeDispatch ==
    (/\ vpc = "done" /\ request.method = "POST"
     /\ json_data = BodyNone
     /\ IsSubclass(http.caught.cls, "RpcException"))
    => /\ http.kind = "response"
       /\ IsError(http.content, http.content.d["id"], http.caught.cls,
                  Code(http.caught.cls))

-----------------------------------------------------------------------------
(* C18: when dispatch is called with request=..., a handler that declares  *)
(* only positional parameters, called with as many params, is run and what *)
(* it returns is answered in a success envelope.                           *)
C18_ContextIgnored ==
    (/\ Over /\ WellFormed /\ DOMAIN kwargs.d = {"request"} /\ invoked = 1
     /\ ~Handler.kw
     /\ Len(Member("params").a) = Handler.arity)
    => /\ executed = 1
       /\ (HandlerReturned /\ IsJsonValue(result))
          => Answered(SuccessEnvelope(RequestId, result))

\* add(a, b), called with [2, 3] and request=..., is not run: the call is
\* answered with UnknownProcessingError
C18_Witness ==
    /\ json_data = BodyJson(Request(Str("y"), Str("add"),
                                    List(<<Num(2), Num(3)>>)))
    /\ kwargs = Kwargs(<<<<"request", RequestObject>>>>)
    /\ callee = <<add>>
    /\ executed = 0
    /\ AnsweredError(Str("y"), "UnknownProcessingError",
                     UnknownProcessingErrorCode)

-----------------------------------------------------------------------------
(* C19: no step of a dispatch call changes the dispatcher, and however the *)
(* steps of two calls interleave, each call returns what dispatch returns  *)
(* for its own request, the registry and what its handler did.             *)

\* what the handler of the call with locals l did
OutcomeOf(l) ==
    IF l.origin = "handler" THEN Raised(l.exc) ELSE Returned(l.result)

\* the call with locals l, once over, has returned what it returns alone
Isolated(l) ==
    l.pc \in {"encoded", "escaped"}
    => l.response = dispatch(methods, json_encoder, l.json_data, l.kwargs,
                             OutcomeOf(l))

C19_CallsAreIsolated ==
    /\ [](Isolated(Running) /\ Isolated(waiting))
    /\ [][methods' = methods /\ json_encoder' = json_encoder
          /\ rpcmethods' = rpcmethods]_vars

\* both calls are over; the one for id "y" was suspended after its id was
\* read and has 5, the other one, for id "z", has 6
C19_Witness ==
    /\ json_data = BodyJson(Request(Str("y"), Str("add"),
                                    List(<<Num(2), Num(3)>>)))
    /\ waiting.json_data = BodyJson(Request(Str("z"), Str("add"),
                                            List(<<Num(3), Num(3)>>)))
    /\ Answered(SuccessEnvelope(Str("y"), Num(5)))
    /\ waiting.pc = "encoded"
    /\ Len(waiting.response) = 1
    /\ Plain(waiting.response[1]) = Plain(SuccessEnvelope(Str("z"), Num(6)))

-----------------------------------------------------------------------------
(* C21: the authorization hook permissions_required(p) returns, called     *)
(* with a request, fails with AuthException (code 403) when the request    *)
(* has no user or its user does not have permission p; it completes        *)
(* without error only for a user who has p.                                *)

\* user.has_perm(permission) of django.contrib.auth: an inactive user has no
\* permission, an active superuser has every one
has_perm(user, permission) ==
    user.is_active /\ (user.is_superuser \/ permission.s \in user.perms)

\* the permissions whose hook a method may name
Permissions == {Str("add_group"), Str("change_group")}

\* the hook of permissions_required(p) has been called with the request
HookCalled(p) ==
    /\ Named # <<>>
    /\ Named[1].authorization = permissions_required(p)
    /\ Called("authorization")

C21_PermissionsRequired ==
    \A p \in Permissions :
        HookCalled(p)
        => IF request.user = <<>> \/ ~has_perm(request.user[1], p)
           THEN Refused /\ Code("AuthException") = 403
           ELSE ~Refused

\* the hook for add_group was called for alice, who has no permission, and
\* has let the request through to the handler
C21_Witness ==
    /\ HookCalled(Str("add_group"))
    /\ request.user = <<Account("alice", "wonder", TRUE, FALSE, FALSE, {})>>
    /\ request.assigned = <<"foo">>
    /\ ~Refused
    /\ Called("handler")

-----------------------------------------------------------------------------
(* C22: dispatch checks, in this order, that the body is not empty, that   *)
(* it is JSON, that its root is an object, that method and params are      *)
(* there, that method is a string, that params is an array and that the    *)
(* method is registered; the first check that fails alone decides the      *)
(* class and the message of the error, and the handler is called only when *)
(* none fails.                                                             *)

\* the checks in the order of the claim
CheckNumbers == 1..7

\* the request passes check i (asked only of a request that passes the
\* checks before it)
Passes(i) ==
    CASE i = 1 -> json_data.k \notin {"None", "empty"}
      [] i = 2 -> json_data.k = "json"
      [] i = 3 -> json_data.v.t = "dict"
      [] i = 4 -> {"method", "params"} \subseteq DOMAIN json_data.v.d
      [] i = 5 -> Member("method").t = "unicode"
      [] i = 6 -> Member("params").t = "list"
      [] i = 7 -> callee # <<>>

\* the class and the message of the error of check i
Failure(i) ==
    CASE i = 1 -> Exc("BadDataException", "No POST data")
      [] i = 2 -> Exc("BadDataException", "JSON decoding error")
      [] i = 3 -> Exc("BadDataException",
                      "JSON does not contain dict as its root object")
      [] i = 4 -> Exc("BadDataException",
                      "JSON must contain attributes method and params")
      [] i = 5 -> Exc("BadMethodException", "JSON Wrong parameter method")
      [] i = 6 -> Exc("BadMethodException",
                      "JSON method params has to be Array")
      [] i = 7 -> Exc("BadMethodException",
                      "Called method " \o Member("method").s
                      \o " does not exist in this api, see system.listMethods")

\* the first i checks pass
PassesFirst(i) == \A j \in 1..i : Passes(j)

\* check i is the first to fail
FirstFailing(i) == PassesFirst(i - 1) /\ ~Passes(i)

\* the message of the error envelope returned
ErrorMessage == response[1].d["error"].d["message"]

C22_FirstFailingCheckDecides ==
    Over
    => /\ \A i \in CheckNumbers :
            FirstFailing(i)
            => /\ AnsweredError(api_call_id, Failure(i).cls,
                                Code(Failure(i).cls))
               /\ ErrorMessage = Str(Failure(i).message)
               /\ invoked = 0
       /\ (\A i \in CheckNumbers : Passes(i)) => invoked = 1

\* an object without params whose method is a number is answered with
\* BadDataException, code 101
C22_Witness ==
    /\ json_data = BodyJson(Request(Str("y"), Num(1), Absent))
    /\ AnsweredError(Str("y"), "BadDataException", 101)
    /\ ErrorMessage = Str("JSON must contain attributes method and params")

\* a method that is not registered, called with params that are no array,
\* is answered with the error about params
C22_WitnessParams ==
    /\ json_data = BodyJson(Request(Str("y"), Str("nope"), Str("x")))
    /\ "nope" \notin DOMAIN methods
    /\ AnsweredError(Str("y"), "BadMethodException", 102)
    /\ ErrorMessage = Str("JSON method params has to be Array")

-----------------------------------------------------------------------------
(* C23: once an RPCDispatcher is built, and after every register_method    *)
(* call, the descriptors of rpcmethods have names that differ from one     *)
(* another, these names are the keys of jsonrpcdispatcher.methods, and     *)
(* under each name methods holds the callable of the descriptor of that    *)
(* name.  Between the lines of a call the names are distinct too, each is  *)
(* a key of methods and is bound to its descriptor's callable; the one key *)
(* more is the name line 428 has bound and line 429 is about to append.    *)
C23_RegistriesAgree ==
    /\ \A i, j \in DOMAIN rpcmethods :
          rpcmethods[i].name = rpcmethods[j].name => i = j
    /\ {rpcmethods[i].name : i \in DOMAIN rpcmethods}
       = DOMAIN methods \ (IF reg.line = 429 THEN {LastMeth.name} ELSE {})
    /\ \A i \in DOMAIN rpcmethods :
          methods[rpcmethods[i].name] = rpcmethods[i].method

\* two register_method calls were made on a dispatcher built with the
\* introspection methods: the second one, for echo under the name add, found
\* the name taken by the first
C23_Witness ==
    /\ reg.n = 2 /\ reg.dup
    /\ LastCall.method = rpc_echo_add
    /\ Registered("system.listMethods") # {}
    /\ Cardinality(Registered("add")) = 1
    /\ methods["add"] = rpc_add
    /\ Len(rpcmethods) = Cardinality(DOMAIN methods)

\* a register_method call stands between line 428 and line 429: add is
\* called through dispatch, and no descriptor lists it yet
C23_WitnessBetweenLines ==
    /\ reg.line = 429 /\ LastMeth.name = "add"
    /\ Registered("add") = {}
    /\ Over /\ CallOf("add") /\ invoked = 1
    /\ callee = <<methods["add"]>>

-----------------------------------------------------------------------------
(* C24: a dispatcher built without restrict_introspection has its four     *)
(* introspection methods registered before every method of an application; *)
(* a method registered later under one of their names is ignored and the   *)
(* name stays bound to the dispatcher's own method.  A dispatcher built    *)
(* with restrict_introspection has none of the four, and a request that    *)
(* names one is answered with BadMethodException (code 102) unless an      *)
(* application has registered a method under that name: once line 428 of   *)
(* its register_method call has run, dispatch calls the method, and once   *)
(* the call has returned, rpcmethods lists it.                             *)

\* the introspection methods of lines 232-235, in the order they are
\* registered
Introspection ==
    <<system_listmethods, system_methodhelp, system_methodsignature,
      system_describe>>
IntrospectionNames ==
    {Introspection[i].attrs["external_name"] : i \in DOMAIN Introspection}

\* the request names the method, registered or not, and has a params array
Asks(name) ==
    /\ Has("method") /\ Has("params")
    /\ Member("method") = Str(name)
    /\ Member("params").t = "list"

\* the values of a field of the descriptors
Range(rpcms, field) == {rpcms[i][field] : i \in DOMAIN rpcms}

\* the dispatcher was built with restrict_introspection set / not set
Restricted   == config # <<>> /\ config[1].restrict_introspection
Unrestricted == config # <<>> /\ ~config[1].restrict_introspection

C24_IntrospectionFirst ==
    /\ Unrestricted
       => /\ \A i \in DOMAIN Introspection :
                /\ rpcmethods[i].method = Introspection[i]
                /\ rpcmethods[i].name = Introspection[i].attrs["external_name"]
                /\ methods[rpcmethods[i].name] = Introspection[i]
          /\ (Built_ /\ LastMeth.name \in IntrospectionNames)
             => reg.dup /\ LastCall.method \notin Range(rpcmethods, "method")
    /\ Restricted
       => /\ \A i \in DOMAIN Introspection :
                Introspection[i] \notin Range(rpcmethods, "method")
          /\ \A n \in IntrospectionNames :
                (Over /\ Asks(n))
                => /\ (Registered(n) = {} /\ ~Registering) => callee = <<>>
                   /\ n \notin DOMAIN methods => callee = <<>>
                   /\ IF callee = <<>>
                      THEN AnsweredError(RequestId, "BadMethodException",
                                         102)
                      ELSE /\ invoked = 1
                           /\ Handler = methods[n]
                           /\ ~Registering
                              => Handler \in Range(rpcmethods, "method")

\* echo, decorated with the name system.listMethods, was registered on a
\* dispatcher that has the introspection methods, and a call of
\* system.listMethods is answered with the list of names
C24_Witness ==
    /\ Unrestricted
    /\ reg.dup /\ LastCall.method = rpc_listing
    /\ CallOf("system.listMethods") /\ Member("params") = List(<<>>)
    /\ pc = "encoded" /\ result.t = "list"
    /\ Answered(SuccessEnvelope(Str("y"), result))

\* the built-in system.describe answers with the url the dispatcher was
\* built with; json.dumps writes the tuple as an array and the members in
\* the order the dict iterates them
C24_WitnessDescribe ==
    /\ Unrestricted
    /\ CallOf("system.describe") /\ Handler = system_describe
    /\ pc = "encoded" /\ Len(response) = 1
    /\ result.d["serviceURL"] = Tuple(<<Str("/RPC2/")>>)
    /\ response[1].d["result"].d["serviceURL"] = List(<<Str("/RPC2/")>>)
    /\ result.a = <<Str("serviceType"), Str("serviceURL"), Str("methods")>>
    /\ response[1].d["result"].a
          = <<Str("serviceType"), Str("methods"), Str("serviceURL")>>

\* introspection is restricted and no application has the name
C24_WitnessRestricted ==
    /\ Restricted
    /\ Asks("system.describe")
    /\ AnsweredError(Str("y"), "BadMethodException", 102)

\* introspection is restricted and echo, decorated with the name
\* system.listMethods, answers
C24_WitnessClaimed ==
    /\ Restricted
    /\ CallOf("system.listMethods") /\ Member("params") = List(<<Num(2)>>)
    /\ methods["system.listMethods"] = rpc_listing
    /\ Answered(SuccessEnvelope(Str("y"), Num(2)))

-----------------------------------------------------------------------------
(* C25 as the specification states it: a request that passes every check   *)
(* and names a handler whose number of positional parameters differs from  *)
(* the length of params is answered with the error envelope of             *)
(* UnknownProcessingError, code 104, that echoes the id, and the body of   *)
(* the handler is not run.                                                 *)
C25_ArityMismatch ==
    (/\ Over /\ WellFormed
     /\ Len(Member("params").a) # Handler.arity)
    => /\ AnsweredError(RequestId, "UnknownProcessingError", 104)
       /\ invoked = 1
       /\ executed = 0

\* the parameters of c that n positional arguments leave without a value
Unfilled(c, n) ==
    {c.args[j] : j \in (Len(c.args) - c.arity + n + 1)..Len(c.args)}

(* C25, amended: a request that passes every check and names a handler     *)
(* that params gives too many values, or too few with a missing parameter  *)
(* that no keyword of dispatch names, is answered with the error envelope  *)
(* of UnknownProcessingError, code 104, that echoes the id, and the body   *)
(* of the handler is not run.                                              *)
C25_ArityMismatchUnfilled ==
    (/\ Over /\ WellFormed
     /\ \/ Len(Member("params").a) > Handler.arity
        \/ ~(Unfilled(Handler, Len(Member("params").a))
                \subseteq DOMAIN kwargs.d))
    => /\ AnsweredError(RequestId, "UnknownProcessingError", 104)
       /\ invoked = 1
       /\ executed = 0

\* add is called with [2] and the keyword b=3 of dispatch: line 129 binds b
\* to the keyword and the body runs
C25_WitnessKeyword ==
    /\ json_data = BodyJson(Request(Str("y"), Str("add"), List(<<Num(2)>>)))
    /\ kwargs = Kwargs(<<<<"b", Num(3)>>>>)
    /\ callee = <<add>>
    /\ Answered(SuccessEnvelope(Str("y"), Num(5)))
    /\ executed = 1

\* add, which has two parameters, is called with [2]
C25_Witness ==
    /\ json_data = BodyJson(Request(Str("y"), Str("add"), List(<<Num(2)>>)))
    /\ kwargs = NoKwargs
    /\ callee = <<add>>
    /\ AnsweredError(Str("y"), "UnknownProcessingError", 104)
    /\ ErrorMessage
          = Str("TypeError: add() takes exactly 2 arguments (1 given)")
    /\ executed = 0

\* add was registered when line 126 looked for it; before line 129 read the
\* registry another thread registered echo under the name, and echo, which
\* has one parameter, was called with [2, 3]
C25_WitnessReplaced ==
    /\ json_data = BodyJson(Request(Str("y"), Str("add"),
                                    List(<<Num(2), Num(3)>>)))
    /\ kwargs = NoKwargs
    /\ callee = <<echo>>
    /\ AnsweredError(Str("y"), "UnknownProcessingError", 104)
    /\ ErrorMessage
          = Str("TypeError: echo() takes exactly 1 argument (2 given)")
    /\ executed = 0

=============================================================================
